---- MODULE Spec2Model ----
(***************************************************************************)
(* Vulkan rendering backend of the X11 compositor: the swapchain           *)
(* acquire/present loop (VulkanSwapchain, VulkanLayer,                     *)
(* X11StandaloneVulkanBackend), the scene walker's per-frame command       *)
(* recording and submission (ItemRendererVulkan), the per-thread pools     *)
(* (VulkanContext), the pipeline cache (VulkanPipelineManager) and the     *)
(* lifetime of texture handles (VulkanTexture, VulkanSurfaceTextureX11).   *)
(*                                                                         *)
(* The GPU is a second process: it executes the submitted command buffers  *)
(* in submission order and signals the fence of each when it completes.    *)
(***************************************************************************)
EXTENDS Integers, Sequences, FiniteSets, TLC

\* ---------------------------------------------------------------- bounds
MaxFrames == 3          \* frames presented in one run
MaxWindows == 2          \* windows painted per frame where a frame of several items is studied
MaxChildren == 3        \* child items of the item whose walk is studied
MaxItemsPerFrame == 1   \* renderItem calls per frame
MaxNodes == 1           \* items in a tree handed to renderItem in the frame loop
MaxNodeVerts == 2       \* vertices of one render node
NumTextures == 1        \* texture objects owned by scene items
NumSizes == 2           \* workspace geometries
NumImages == 2          \* images of the swapchain ring
MaxRenderPasses == 3    \* render passes created in one run (one per swapchain build)
ArenaCells == 1         \* streaming vertex buffer capacity, in vertices (4 MiB in the program)
PoolMaxSets == 2        \* descriptor pool maxSets (1000 in the program)
UniformSlots == 2       \* uniform buffer slots (1024 in the program)
MaxFaults == 1          \* Vulkan calls that fail in one run
NumColorTextures == 2   \* framebuffers with a colour texture
NumRenderPasses == 2    \* render passes handed to setRenderPass directly
NumPixmaps == 3         \* pixmap ids a window goes through
MaxPlanes == 2          \* planes of a multi-plane DMA-BUF

\* ------------------------------------------------------ program constants
MAX_FRAMES_IN_FLIGHT == 2

Slots == 0 .. (MAX_FRAMES_IN_FLIGHT - 1)
NoSlot == MAX_FRAMES_IN_FLIGHT       \* VK_NULL_HANDLE in a VulkanSyncInfo
UINT32_MAX == NumImages              \* the "no image" return of acquireNextImage
Textures == 1 .. NumTextures
Sizes == 1 .. NumSizes
Cells == 0 .. (ArenaCells - 1)
ColorTextures == 1 .. NumColorTextures
PixmapIds == 1 .. NumPixmaps
\* depths and pixel sizes an X server can report for a pixmap
X11Depths == {1, 8, 15, 16, 24, 30, 32}
X11BitsPerPixel == {1, 8, 16, 24, 32}
\* VkFormat: the core enumerators end at VK_FORMAT_ASTC_12x12_SRGB_BLOCK,
\* extension enumerators start at 1000000000
VK_FORMAT_LAST_CORE == 184
VK_FORMAT_FIRST_EXTENSION == 1000000000
Layouts == {"UNDEFINED", "COLOR_ATTACHMENT_OPTIMAL", "SHADER_READ_ONLY_OPTIMAL",
            "TRANSFER_SRC_OPTIMAL", "TRANSFER_DST_OPTIMAL"}

\* Shader traits are bit sets; the nodes built here use these three.
NodeTraits == { {"MapTexture"}, {"MapTexture", "Modulate"}, {"Border"} }
TraitSets == NodeTraits \cup { {"MapTexture", "UniformColor"} }
NoPipeline == [rp |-> 0, built |-> {}]

VARIABLES
    \* VulkanSwapchain
    m_swapchain,                \* the swapchain handle is non-null
    m_extent,
    m_images,                   \* length of m_images
    m_imageViews,               \* length of m_imageViews
    m_framebuffers,             \* length of m_framebuffers
    framebuffersBuilt,          \* leading entries of m_framebuffers that are non-null
    renderPassSeq,              \* id of the last render pass the device created
    m_renderPass,               \* id of the swapchain's render pass, 0 = none
    m_currentFrame,
    m_currentImageIndex,
    m_needsRecreation,
    m_inFlightFences,           \* slot -> "signaled" | "unsignaled"
    m_imageAvailableSemaphores, \* slot -> pending signals
    m_renderFinishedSemaphores, \* slot -> pending signals
    \* X11 / driver
    workspaceSize,              \* workspace()->geometry().size(), also the overlay window's size
    surface,                    \* what the WSI has noticed of the window: "ok" | "suboptimal" | "out_of_date"
    \* VulkanPipelineManager
    pm_renderPass,              \* m_renderPass of the manager, 0 = VK_NULL_HANDLE
    m_pipelines,                \* traits -> [rp, built], NoPipeline when absent
    \* VulkanContext
    descriptorSetsAllocated,    \* sets handed out by m_descriptorPool and never freed
    commandBuffersAllocated,    \* command buffers allocated from m_commandPool and not freed
    arenaOverflow,              \* the last vertex upload ran past the end of the streaming buffer
    \* ItemRendererVulkan
    m_currentCommandBuffer,     \* non-null
    cmdRecording,               \* vkBeginCommandBuffer succeeded on m_currentCommandBuffer
    m_currentFramebuffer,       \* non-null
    m_currentSyncInfo,          \* slot whose semaphores and fence it carries, NoSlot when empty
    m_releasePoints,            \* the set of collected release points is non-empty
    m_outputsInFlight,
    uniformIndex,               \* the static counter of renderNodes, modulo UniformSlots
    recorded,                   \* what the command buffer being recorded references
    \* textures
    texValid,                   \* texture -> it has an image and an image view
    m_filter,                   \* texture -> filter of its sampler
    m_wrapMode,                 \* texture -> wrap mode of its sampler
    \* GPU
    queue,                      \* submitted command buffers, oldest first
    \* compositor loop
    pc,
    faults,                     \* Vulkan calls that have failed so far
    itemsThisFrame,
    \* observations
    presentedFrames,            \* frames that reached swapchain present
    lastAcquire,                \* VkResult of vkAcquireNextImageKHR in the current frame
    chain,                      \* semaphore operations of the current swapchain frame
    recovery,                   \* "none" | "ood" | "recreated"
    staleReported,              \* out_of_date/suboptimal reported and no recreate since
    presentOutOfDate,           \* present reported out_of_date and no recreate since
    lastDraws,                  \* outcome per node of the last renderNodes of the frame being recorded
    lastPasses,                 \* render passes of the pipelines it drew with
    lastNodes,                  \* per node of that renderNodes: the node, the pipeline
                                \* returned for it, the descriptor set bound, the outcome
    \* createRenderNode on its own
    sceneItem,                  \* the item tree handed to renderItem
    renderContext,              \* the RenderContext after createRenderNode, or NoContext
    \* VulkanTexture layout tracking, on the colour textures of the framebuffers
    m_currentLayout,            \* colour texture -> VkImageLayout the texture object tracks
    recordedLayout,             \* colour texture -> newLayout of the last barrier recorded for its image
    layoutBeforeCopy,           \* <<>>, or the texture and its layouts at the entry of the copyPixels just run
    \* VulkanPipelineManager on its own
    calls,                      \* the last two pipeline() calls since the render pass was last changed
    \* VulkanSurfaceTextureX11 on its own
    m_size,                     \* size the texture was created for, 0 = never set
    m_texture,                  \* pixmap id the valid texture was imported from, 0 = no valid texture
    lastCreate,                 \* what the last create() saw and did, <<>> before the first
    m_planes,                   \* length of m_texture.planes
    m_stagingBuffer,            \* non-null
    m_useDmaBuf,
    \* X11StandaloneVulkanBackend as a whole
    m_failed,                   \* setFailed was called
    m_context,                  \* "null" | "invalid" | "valid"
    lastOp,                     \* the last backend operation on the failed backend and its outcome
    m_instance,                 \* non-null
    m_device,                   \* non-null
    m_surface,                  \* non-null
    teardown,                   \* Vulkan calls of the destructors, in order
    cpuWaits,                   \* blocking CPU waits since the last vkAcquireNextImageKHR
    lastEndFrame,               \* <<>> or <<what the last endFrame() did with the release points>>
    recreateInvoked,            \* recreate() was called since m_needsRecreation last became true
    dri3Reply,                  \* <<>> or <<the xcb_dri3_buffer_from_pixmap reply being imported>>
    lastImport                  \* <<>> or <<formats the last DMA-BUF import went through>>

swapVars == <<m_swapchain, m_extent, m_images, m_imageViews, m_framebuffers, framebuffersBuilt,
              renderPassSeq, m_renderPass,
              m_currentFrame, m_currentImageIndex, m_needsRecreation>>
syncVars == <<m_inFlightFences, m_imageAvailableSemaphores, m_renderFinishedSemaphores>>
pipeVars == <<pm_renderPass, m_pipelines>>
ctxVars == <<descriptorSetsAllocated, commandBuffersAllocated, arenaOverflow>>
texVars == <<texValid, m_filter, m_wrapMode>>
rendVars == <<m_currentCommandBuffer, cmdRecording, m_currentFramebuffer, m_currentSyncInfo,
              m_releasePoints, m_outputsInFlight, uniformIndex, recorded>>
loopVars == <<pc, faults, itemsThisFrame>>
obsVars == <<presentedFrames, lastAcquire, chain, recovery, staleReported,
             presentOutOfDate, lastDraws, lastPasses, lastNodes>>
itemVars == <<sceneItem, renderContext>>
layoutVars == <<m_currentLayout, recordedLayout, layoutBeforeCopy>>
\* what the frame loop never touches
surfaceVars == <<m_size, m_texture, lastCreate, m_planes, m_stagingBuffer, m_useDmaBuf>>
failVars == <<m_failed, m_context, lastOp, m_instance, m_device, m_surface, teardown>>
frameVars == <<cpuWaits, lastEndFrame, recreateInvoked>>
formatVars == <<dri3Reply, lastImport>>
stillVars == <<itemVars, formatVars, layoutVars, calls, surfaceVars, failVars>>
sideVars == <<itemVars, frameVars, formatVars, layoutVars, calls, surfaceVars, failVars>>
backendVars == <<swapVars, syncVars, workspaceSize, surface, pipeVars, ctxVars, rendVars, texVars,
                 queue, loopVars, obsVars>>
vars == <<backendVars, sideVars>>

\* ------------------------------------------------------------- helpers
Min(a, b) == IF a < b THEN a ELSE b

\* What a command buffer references: textures, streaming-buffer cells and
\* uniform slots; lost: textures whose handles were destroyed since; written:
\* its vertices or uniforms were overwritten since.
EmptyRecording == [texs |-> {}, cells |-> {}, ubos |-> {}, lost |-> {},
                   vertsWritten |-> FALSE, uniformsWritten |-> FALSE]

\* A Vulkan call may fail while the run's budget of failures lasts.
MayFail == faults < MaxFaults
Failed(n) == faults' = faults + n

\* The swapchain no longer matches the surface it presents to.
Stale == m_extent # workspaceSize

\* The WSI notices a resized window during some later acquire or present, as
\* suboptimal or as out of date, and never takes a verdict back.
Noticed ==
    IF ~Stale \/ surface = "out_of_date" THEN {surface}
    ELSE IF surface = "suboptimal" THEN {"suboptimal", "out_of_date"}
    ELSE {"ok", "suboptimal", "out_of_date"}

ResultOf(level) ==
    IF level = "ok" THEN "SUCCESS"
    ELSE IF level = "suboptimal" THEN "SUBOPTIMAL" ELSE "OUT_OF_DATE"

SurfaceAfter(result) ==
    IF result = "SUCCESS" THEN "ok"
    ELSE IF result = "SUBOPTIMAL" THEN "suboptimal"
    ELSE IF result = "OUT_OF_DATE" THEN "out_of_date" ELSE surface

\* What vkAcquireNextImageKHR / vkQueuePresentKHR may return.
DriverResults ==
    {ResultOf(level) : level \in Noticed} \cup (IF MayFail THEN {"ERROR"} ELSE {})

\* some submitted command buffer will signal the fence of slot s
FencePending(s) == \E i \in 1 .. Len(queue) : queue[i].slot = s

\* The backend object before init(): no swapchain yet, no render pass set.
\* The backend before init().
InitBackend ==
    /\ m_swapchain = FALSE
    /\ workspaceSize = 1
    /\ surface = "ok"
    /\ m_extent = 0
    /\ m_images = 0
    /\ m_imageViews = 0
    /\ m_framebuffers = 0
    /\ framebuffersBuilt = 0
    /\ renderPassSeq = 0
    /\ m_renderPass = 0
    /\ m_currentFrame = 0
    /\ m_currentImageIndex = 0
    /\ m_needsRecreation = FALSE
    /\ m_inFlightFences = [s \in Slots |-> "signaled"]
    /\ m_imageAvailableSemaphores = [s \in Slots |-> 0]
    /\ m_renderFinishedSemaphores = [s \in Slots |-> 0]
    /\ pm_renderPass = 0
    /\ m_pipelines = [t \in TraitSets |-> NoPipeline]
    /\ descriptorSetsAllocated = 0
    /\ commandBuffersAllocated = 0
    /\ arenaOverflow = FALSE
    /\ m_currentCommandBuffer = FALSE
    /\ cmdRecording = FALSE
    /\ m_currentFramebuffer = FALSE
    /\ m_currentSyncInfo = NoSlot
    /\ m_releasePoints = FALSE
    /\ m_outputsInFlight = 0
    /\ uniformIndex = 0
    /\ recorded = EmptyRecording
    /\ m_filter = [t \in Textures |-> "LINEAR"]
    /\ m_wrapMode = [t \in Textures |-> "CLAMP_TO_EDGE"]
    /\ queue = <<>>
    /\ pc = "init"
    /\ faults = 0
    /\ itemsThisFrame = 0
    /\ presentedFrames = 0
    /\ lastAcquire = "none"
    /\ chain = <<>>
    /\ recovery = "none"
    /\ staleReported = FALSE
    /\ presentOutOfDate = FALSE
    /\ lastDraws = <<>>
    /\ lastPasses = {}
    /\ lastNodes = <<>>
    /\ m_currentLayout = [t \in ColorTextures |-> "UNDEFINED"]
    /\ recordedLayout = [t \in ColorTextures |-> "UNDEFINED"]
    /\ layoutBeforeCopy = <<>>
    /\ calls = <<>>
    /\ m_size = 0
    /\ m_texture = 0
    /\ lastCreate = <<>>
    /\ m_planes = 0
    /\ m_stagingBuffer = FALSE
    /\ m_useDmaBuf = FALSE
    /\ m_failed = FALSE
    /\ m_context = "null"
    /\ lastOp = <<>>
    /\ m_instance = FALSE
    /\ m_device = FALSE
    /\ m_surface = FALSE
    /\ teardown = <<>>
    /\ cpuWaits = {}
    /\ lastEndFrame = <<>>
    /\ recreateInvoked = FALSE
    /\ dri3Reply = <<>>
    /\ lastImport = <<>>

NoItem == <<>>
NoContext == <<>>

Init ==
    /\ InitBackend
    /\ texValid = [t \in Textures |-> TRUE]
    /\ sceneItem = NoItem
    /\ renderContext = NoContext

\* ------------------------------------------------------ VulkanSwapchain

\* acquireNextImage without the flag on VK_SUBOPTIMAL_KHR
AcquireNextImage_SuboptimalUnflagged(result, idx) ==
    IF result = "OUT_OF_DATE"
    THEN [needs |-> TRUE, index |-> m_currentImageIndex, ret |-> UINT32_MAX]
    ELSE IF result # "SUCCESS" /\ result # "SUBOPTIMAL"
    THEN [needs |-> m_needsRecreation, index |-> m_currentImageIndex, ret |-> UINT32_MAX]
    ELSE [needs |-> m_needsRecreation, index |-> idx, ret |-> idx]

\* acquireNextImage without the early return on VK_ERROR_OUT_OF_DATE_KHR
AcquireNextImage_OutOfDateFallsThrough(result, idx) ==
    IF result = "OUT_OF_DATE" \/ result = "SUBOPTIMAL"
    THEN [needs |-> TRUE, index |-> idx, ret |-> idx]
    ELSE IF result # "SUCCESS"
    THEN [needs |-> m_needsRecreation, index |-> m_currentImageIndex, ret |-> UINT32_MAX]
    ELSE [needs |-> m_needsRecreation, index |-> idx, ret |-> idx]

\* acquireNextImage: the new m_needsRecreation, m_currentImageIndex and the
\* value returned, for the driver's result and the index it chose.
AcquireNextImage(result, idx) ==
    IF result = "OUT_OF_DATE"
    THEN [needs |-> TRUE, index |-> m_currentImageIndex, ret |-> UINT32_MAX]
    ELSE IF result = "SUBOPTIMAL"
    THEN [needs |-> TRUE, index |-> idx, ret |-> idx]
    ELSE IF result # "SUCCESS"
    THEN [needs |-> m_needsRecreation, index |-> m_currentImageIndex, ret |-> UINT32_MAX]
    ELSE [needs |-> m_needsRecreation, index |-> idx, ret |-> idx]

\* VulkanSwapchain::present: the new m_needsRecreation and the value returned.
SwapchainPresent(result) ==
    IF result = "OUT_OF_DATE" \/ result = "SUBOPTIMAL"
    THEN [needs |-> TRUE, ok |-> TRUE]
    ELSE IF result # "SUCCESS"
    THEN [needs |-> m_needsRecreation, ok |-> FALSE]
    ELSE [needs |-> m_needsRecreation, ok |-> TRUE]

\* advanceFrame without the increment
AdvanceFrame_NoIncrement(frame) == frame % MAX_FRAMES_IN_FLIGHT

AdvanceFrame(frame) == (frame + 1) % MAX_FRAMES_IN_FLIGHT

\* chooseSwapExtent: an xcb surface reports the window's size as currentExtent.
ChooseSwapExtent(currentExtent, requestedSize) ==
    IF currentExtent # 0 THEN currentExtent ELSE requestedSize

\* framebuffer(index)
FramebufferAt(index) == index < framebuffersBuilt

\* Where a rebuild of the swapchain can stop.
RecreateStages == {"ok", "swapchain", "views", "renderpass", "framebuffers"}

\* recreate(newSize): vkDeviceWaitIdle, cleanupSwapchain, then the four builders;
\* stage names the builder that fails, built the framebuffers made before a failure.
Recreate(newSize, stage, built) ==
    LET gotSwapchain == stage # "swapchain"
        gotViews == gotSwapchain /\ stage # "views"
        gotPass == gotViews /\ stage # "renderpass"
        gotFbs == gotPass /\ stage # "framebuffers"
    IN  /\ m_swapchain' = gotSwapchain
        /\ m_extent' = IF gotSwapchain THEN ChooseSwapExtent(workspaceSize, newSize) ELSE m_extent
        /\ m_images' = IF gotSwapchain THEN NumImages ELSE 0
        /\ m_imageViews' = IF gotSwapchain THEN NumImages ELSE 0
        /\ renderPassSeq' = IF gotViews THEN renderPassSeq + 1 ELSE renderPassSeq
        /\ m_renderPass' = IF gotPass THEN renderPassSeq + 1 ELSE 0
        /\ m_framebuffers' = IF gotPass THEN NumImages ELSE 0
        /\ framebuffersBuilt' = IF gotFbs THEN NumImages ELSE IF gotPass THEN built ELSE 0
        /\ m_needsRecreation' = IF gotFbs THEN FALSE ELSE m_needsRecreation
        /\ surface' = IF gotSwapchain THEN "ok" ELSE surface
        \* vkDeviceWaitIdle: every submitted command buffer has completed
        /\ queue' = <<>>
        /\ m_inFlightFences' = [s \in Slots |->
                                  IF FencePending(s) THEN "signaled" ELSE m_inFlightFences[s]]
        /\ staleReported' = IF gotFbs THEN FALSE ELSE staleReported
        /\ presentOutOfDate' = FALSE
        /\ recovery' = IF gotFbs /\ recovery = "ood" THEN "recreated" ELSE "none"
        /\ recreateInvoked' = TRUE

\* An owner of the swapchain rebuilds it between two frames.
SwapchainRecreate ==
    /\ UNCHANGED <<stillVars, cpuWaits, lastEndFrame>>
    /\ pc = "idle"
    /\ m_needsRecreation
    /\ renderPassSeq < MaxRenderPasses
    /\ \E stage \in RecreateStages, built \in 0 .. (NumImages - 1) :
          /\ (stage # "framebuffers" => built = 0)
          /\ (stage # "ok" => MayFail)
          /\ Failed(IF stage # "ok" THEN 1 ELSE 0)
          /\ Recreate(workspaceSize, stage, built)
    /\ UNCHANGED <<m_currentFrame, m_currentImageIndex, m_imageAvailableSemaphores,
                   m_renderFinishedSemaphores, workspaceSize, pipeVars, ctxVars, rendVars,
                   texVars, pc, itemsThisFrame, presentedFrames, lastAcquire, chain,
                   lastDraws, lastPasses, lastNodes>>

\* ------------------------------------------------------------ X11 glue

\* screenGeometryChanged: the overlay's child window takes the new workspace
\* size (xcb_configure_window, Xcb::sync); the swapchain is left alone.
ScreenGeometryChanged ==
    /\ UNCHANGED sideVars
    /\ pc = "idle"
    /\ \E size \in Sizes \ {workspaceSize} : workspaceSize' = size
    /\ UNCHANGED <<surface, swapVars, syncVars, pipeVars, ctxVars, rendVars, texVars, queue,
                   loopVars, obsVars>>

\* ------------------------------------------------------------- the GPU

\* The oldest submitted command buffer completes and its fence is signaled.
GpuComplete ==
    /\ UNCHANGED sideVars
    /\ queue # <<>>
    /\ queue' = Tail(queue)
    /\ m_inFlightFences' = IF Head(queue).slot \in Slots
                           THEN [m_inFlightFences EXCEPT ![Head(queue).slot] = "signaled"]
                           ELSE m_inFlightFences
    /\ UNCHANGED <<swapVars, m_imageAvailableSemaphores, m_renderFinishedSemaphores,
                   workspaceSize, surface, pipeVars, ctxVars, rendVars, texVars, loopVars, obsVars>>

\* ------------------------------------------------- VulkanLayer (presenter)

\* doBeginFrame up to its blocking call: the context and the swapchain are
\* checked, then the layer waits in vkWaitForFences(in_flight[current frame]).
LayerDoBeginFrameEnter ==
    /\ UNCHANGED sideVars
    /\ pc = "idle"
    /\ presentedFrames < MaxFrames
    /\ lastAcquire' = "none"
    /\ UNCHANGED faults
    /\ itemsThisFrame' = 0
    /\ IF m_swapchain
       THEN /\ pc' = "bf_wait"
            /\ chain' = <<>>
       ELSE /\ pc' = "idle"
            /\ UNCHANGED chain
    /\ UNCHANGED <<swapVars, syncVars, workspaceSize, surface, pipeVars, ctxVars, rendVars, texVars,
                   queue, presentedFrames, recovery, staleReported,
                   presentOutOfDate, lastDraws, lastPasses, lastNodes>>

\* doBeginFrame from the return of waitForFence: resetFence, acquireNextImage,
\* then the framebuffer lookup and the render target with its SyncInfo.
LayerDoBeginFrameProceed ==
    /\ UNCHANGED <<stillVars, lastEndFrame>>
    /\ cpuWaits' = {}
    /\ pc = "bf_wait"
    /\ m_inFlightFences[m_currentFrame] = "signaled"
    /\ m_inFlightFences' = [m_inFlightFences EXCEPT ![m_currentFrame] = "unsignaled"]
    /\ \E result \in DriverResults, idx \in 0 .. (NumImages - 1) :
          LET a == AcquireNextImage(result, idx)
              signaled == result \in {"SUCCESS", "SUBOPTIMAL"}
          IN  /\ m_needsRecreation' = a.needs
              /\ recreateInvoked' = (recreateInvoked /\ (m_needsRecreation \/ ~a.needs))
              /\ m_currentImageIndex' = a.index
              /\ lastAcquire' = result
              /\ surface' = SurfaceAfter(result)
              /\ Failed(IF result = "ERROR" THEN 1 ELSE 0)
              /\ m_imageAvailableSemaphores' =
                    IF signaled
                    THEN [m_imageAvailableSemaphores EXCEPT
                             ![m_currentFrame] = Min(@ + 1, 2)]
                    ELSE m_imageAvailableSemaphores
              /\ chain' = IF signaled THEN Append(chain, "acquire") ELSE chain
              /\ staleReported' = (staleReported \/ result \in {"OUT_OF_DATE", "SUBOPTIMAL"})
              /\ recovery' = IF result = "OUT_OF_DATE" THEN "ood" ELSE "none"
              /\ pc' = IF a.ret = UINT32_MAX \/ ~(a.index < framebuffersBuilt)
                       THEN "idle" ELSE "begun"
    /\ UNCHANGED <<m_swapchain, m_extent, m_images, m_imageViews, m_framebuffers,
                   framebuffersBuilt, renderPassSeq, m_renderPass, m_currentFrame,
                   m_renderFinishedSemaphores, workspaceSize, pipeVars, ctxVars, rendVars,
                   texVars, queue, itemsThisFrame, presentedFrames,
                   presentOutOfDate, lastDraws, lastPasses, lastNodes>>

\* X11StandaloneVulkanBackend::present, called for a frame whose begin succeeded.
BackendPresent ==
    /\ UNCHANGED <<stillVars, cpuWaits, lastEndFrame>>
    /\ pc = "ended"
    /\ pc' = "idle"
    /\ UNCHANGED itemsThisFrame
    /\ IF ~m_swapchain
       THEN UNCHANGED <<swapVars, syncVars, queue, obsVars, faults, surface, recreateInvoked>>
       ELSE \E result \in DriverResults :
            LET p == SwapchainPresent(result)
            IN  /\ chain' = Append(chain, IF m_renderFinishedSemaphores[m_currentFrame] > 0
                                          THEN "present" ELSE "present_unsignaled")
                /\ m_renderFinishedSemaphores' =
                      [m_renderFinishedSemaphores EXCEPT
                          ![m_currentFrame] = IF @ > 0 THEN @ - 1 ELSE 0]
                /\ presentedFrames' = presentedFrames + 1
                /\ m_currentFrame' = AdvanceFrame(m_currentFrame)
                /\ IF ~p.ok /\ p.needs
                   THEN \E stage \in RecreateStages, built \in 0 .. (NumImages - 1) :
                           /\ renderPassSeq < MaxRenderPasses
                           /\ (stage # "framebuffers" => built = 0)
                           /\ (stage # "ok" => faults + 1 < MaxFaults)
                           /\ Failed(IF stage # "ok" THEN 2 ELSE 1)
                           /\ Recreate(workspaceSize, stage, built)
                   ELSE /\ Failed(IF result = "ERROR" THEN 1 ELSE 0)
                        /\ surface' = SurfaceAfter(result)
                        /\ m_needsRecreation' = p.needs
                        /\ recreateInvoked' =
                              (recreateInvoked /\ (m_needsRecreation \/ ~p.needs))
                        /\ staleReported' =
                              (staleReported \/ result \in {"OUT_OF_DATE", "SUBOPTIMAL"})
                        /\ presentOutOfDate' = (presentOutOfDate \/ result = "OUT_OF_DATE")
                        /\ UNCHANGED <<m_swapchain, m_extent, m_images, m_imageViews,
                                       m_framebuffers, framebuffersBuilt, renderPassSeq,
                                       m_renderPass, queue, m_inFlightFences, recovery>>
                /\ UNCHANGED <<m_currentImageIndex, m_imageAvailableSemaphores, lastAcquire,
                               lastDraws, lastPasses, lastNodes>>
    /\ UNCHANGED <<workspaceSize, pipeVars, ctxVars, rendVars, texVars>>

\* ------------------------------------------------- VulkanPipelineManager

\* VulkanPipeline::create for the traits, against the manager's render pass.
CreatePipeline(traits, failing) ==
    IF traits \in failing THEN NoPipeline ELSE [rp |-> pm_renderPass, built |-> traits]

FallbackTraits(traits) == {"MapTexture"} \cup (traits \cap {"UniformColor"})

\* m_pipelines.find(traits) never finding anything
Lookup_Miss(cache, traits) == NoPipeline

\* m_pipelines.find(traits): the pipeline stored under the key, NoPipeline at end()
Lookup(cache, traits) == cache[traits]

\* pipeline(traits) handing out the fallback pipeline without storing it
Pipeline_FallbackNotCached(cache, traits, failing) ==
    IF pm_renderPass = 0
    THEN [cache |-> cache, result |-> NoPipeline, created |-> <<>>]
    ELSE IF Lookup(cache, traits) # NoPipeline
    THEN [cache |-> cache, result |-> Lookup(cache, traits), created |-> <<>>]
    ELSE LET newPipeline == CreatePipeline(traits, failing)
             fallbackPipeline == CreatePipeline(FallbackTraits(traits), failing)
         IN  IF newPipeline # NoPipeline
             THEN [cache |-> [cache EXCEPT ![traits] = newPipeline], result |-> newPipeline,
                   created |-> <<traits>>]
             ELSE IF FallbackTraits(traits) = traits
             THEN [cache |-> cache, result |-> NoPipeline, created |-> <<traits>>]
             ELSE IF fallbackPipeline # NoPipeline
             THEN [cache |-> cache, result |-> fallbackPipeline,
                   created |-> <<traits, FallbackTraits(traits)>>]
             ELSE [cache |-> cache, result |-> NoPipeline,
                   created |-> <<traits, FallbackTraits(traits)>>]

\* pipeline(traits) on the cache given: the cache afterwards, the pipeline
\* returned (NoPipeline for nullptr) and the traits VulkanPipeline::create was
\* called with, in order. failing: the trait sets whose creation fails.
Pipeline(cache, traits, failing) ==
    IF pm_renderPass = 0
    THEN [cache |-> cache, result |-> NoPipeline, created |-> <<>>]
    ELSE IF Lookup(cache, traits) # NoPipeline
    THEN [cache |-> cache, result |-> Lookup(cache, traits), created |-> <<>>]
    ELSE LET newPipeline == CreatePipeline(traits, failing)
             fallbackPipeline == CreatePipeline(FallbackTraits(traits), failing)
         IN  IF newPipeline # NoPipeline
             THEN [cache |-> [cache EXCEPT ![traits] = newPipeline], result |-> newPipeline,
                   created |-> <<traits>>]
             ELSE IF FallbackTraits(traits) = traits
             THEN [cache |-> cache, result |-> NoPipeline, created |-> <<traits>>]
             ELSE IF fallbackPipeline # NoPipeline
             THEN [cache |-> [cache EXCEPT ![traits] = fallbackPipeline],
                   result |-> fallbackPipeline,
                   created |-> <<traits, FallbackTraits(traits)>>]
             ELSE [cache |-> cache, result |-> NoPipeline,
                   created |-> <<traits, FallbackTraits(traits)>>]

ClearCache == [t \in TraitSets |-> NoPipeline]

\* setRenderPass(renderPass): the manager's render pass and cache afterwards.
SetRenderPass(renderPass) ==
    IF pm_renderPass # renderPass
    THEN [renderPass |-> renderPass, cache |-> ClearCache]
    ELSE [renderPass |-> pm_renderPass, cache |-> m_pipelines]

\* init() whose stages before the swapchain succeed, then initSwapchain():
\* VulkanSwapchain::create at the workspace's size (a failed stage cleans
\* everything up), then the swapchain's render pass is handed to the pipeline
\* manager. A failed init() marks the backend failed.
InitSwapchain ==
    /\ UNCHANGED <<itemVars, frameVars, formatVars, layoutVars, calls, surfaceVars, lastOp, teardown>>
    /\ pc = "init"
    /\ m_instance' = TRUE
    /\ m_device' = TRUE
    /\ m_context' = "valid"
    /\ m_surface' = TRUE
    /\ \E ok \in BOOLEAN :
          /\ (~ok => MayFail)
          /\ Failed(IF ok THEN 0 ELSE 1)
          /\ pc' = IF ok THEN "idle" ELSE "failed"
          /\ m_failed' = ~ok
          /\ m_swapchain' = ok
          /\ m_extent' = IF ok THEN ChooseSwapExtent(workspaceSize, workspaceSize) ELSE m_extent
          /\ m_images' = IF ok THEN NumImages ELSE 0
          /\ m_imageViews' = IF ok THEN NumImages ELSE 0
          /\ m_framebuffers' = IF ok THEN NumImages ELSE 0
          /\ framebuffersBuilt' = IF ok THEN NumImages ELSE 0
          /\ renderPassSeq' = IF ok THEN renderPassSeq + 1 ELSE renderPassSeq
          /\ m_renderPass' = IF ok THEN renderPassSeq + 1 ELSE 0
          /\ pm_renderPass' = IF ok THEN SetRenderPass(renderPassSeq + 1).renderPass
                               ELSE pm_renderPass
          /\ m_pipelines' = IF ok THEN SetRenderPass(renderPassSeq + 1).cache ELSE m_pipelines
    /\ m_inFlightFences' = [s \in Slots |-> "signaled"]
    /\ UNCHANGED <<m_currentFrame, m_currentImageIndex, m_needsRecreation,
                   m_imageAvailableSemaphores, m_renderFinishedSemaphores, workspaceSize, surface,
                   ctxVars, rendVars, texVars, queue, itemsThisFrame, obsVars>>

\* --------------------------------------------------------- VulkanContext

\* supportsExternalFenceFd(): the device has VK_KHR_external_fence_fd.
SupportsExternalFenceFd == TRUE

\* allocateDescriptorSet: TRUE when the pool hands out a set. The pool is
\* created with maxSets and never reset; past maxSets vkAllocateDescriptorSets
\* "may fail", and pastMaxSets tells whether the driver still hands out sets.
AllocateDescriptorSet(allocated) == allocated < PoolMaxSets
AllocateDescriptorSetOn(allocated, pastMaxSets) ==
    AllocateDescriptorSet(allocated) \/ pastMaxSets

\* ---------------------------------------------------- ItemRendererVulkan

\* The items of the scene graph that createRenderNode tells apart.
ItemKinds == {"shadow", "decoration", "surface", "image", "border", "other"}
TexturedKinds == {"shadow", "decoration", "surface", "image"}

\* One item without its children: tex is the texture object its provider,
\* renderer or pixmap refers to (0: none), verts the vertices of its quads,
\* translucent: opacity() < 1, radius: borderRadius() is not null, release: the
\* surface has a buffer release point, behind: z() < 0, visible: explicitVisible().
ItemAttrs ==
    [kind : ItemKinds, tex : {0} \cup Textures, verts : 0 .. MaxNodeVerts,
     translucent : BOOLEAN, radius : BOOLEAN, release : BOOLEAN,
     behind : BOOLEAN, visible : BOOLEAN]

WithChildren(attrs, children) ==
    [kind |-> attrs.kind, tex |-> attrs.tex, verts |-> attrs.verts,
     translucent |-> attrs.translucent, radius |-> attrs.radius,
     release |-> attrs.release, behind |-> attrs.behind, visible |-> attrs.visible,
     children |-> children]

WellFormed(a) ==
    /\ (a.kind \notin TexturedKinds => a.tex = 0)
    /\ (a.kind # "surface" => ~a.release)

\* Items handed to renderItem, and their child items.
RootItems == {a \in ItemAttrs : WellFormed(a) /\ ~a.behind /\ a.visible}
ChildItems == {a \in ItemAttrs : WellFormed(a)}

\* The item trees of one or two levels.
LeafTrees == {WithChildren(a, <<>>) : a \in RootItems}
ItemTrees ==
    LeafTrees \cup
    {WithChildren(a, <<WithChildren(c, <<>>)>>) : a \in RootItems, c \in ChildItems}

\* The items drawn in the frame loop: up to MaxNodes items, square-cornered and
\* with opaque borders, which keeps the shader traits within TraitSets.
Plain(a) == ~a.radius /\ (a.kind = "border" => ~a.translucent)
SceneItems ==
    {WithChildren(a, <<>>) : a \in {r \in RootItems : Plain(r)}} \cup
    (IF MaxNodes > 1
     THEN {WithChildren(a, <<WithChildren(c, <<>>)>>) :
              a \in {r \in RootItems : Plain(r)}, c \in {r \in ChildItems : Plain(r)}}
     ELSE {})

\* RenderContext as renderItem sets it up: the identity transform and the
\* paint data's opacity (opaque here) pushed, no corners, no nodes.
BaseContext ==
    [renderNodes |-> <<>>, transformStack |-> 1, opacityStack |-> <<FALSE>>,
     cornerStack |-> <<>>, releasePoints |-> FALSE, visited |-> <<>>]

\* Observation of the walk: <<d, i>> is appended when the item whose pushed
\* transform stack has d entries calls createRenderNode on the i-th entry of
\* its sortedChildItems, and <<d, 0>> when it reaches its own type dispatch.
Visit(ctx, i) == [ctx EXCEPT !.visited = Append(@, <<ctx.transformStack, i>>)]

Top(stack) == stack[Len(stack)]
Pop(stack) == SubSeq(stack, 1, Len(stack) - 1)

\* texture() of the item's provider: the texture object, 0 for nullptr. The
\* factories of VulkanTexture return nullptr on failure, so an object that
\* exists has its image and view.
TextureOf(item) == IF item.tex # 0 /\ texValid[item.tex] THEN item.tex ELSE 0

\* The texture is not looked at before the node is appended.
EmitsTexturedNode_TextureUnchecked(item) == item.verts > 0

\* The quad's geometry is not empty and the item has its texture.
EmitsTexturedNode(item) == item.verts > 0 /\ TextureOf(item) # 0

\* The node a textured item or an outlined border appends to renderNodes.
NodeOf(item, ctx) ==
    LET rounded == item.kind = "surface" /\ ctx.cornerStack # <<>> /\ Top(ctx.cornerStack)
        base == IF item.kind = "border" THEN {"Border"} ELSE {"MapTexture"}
    IN  [traits |-> base \cup (IF rounded THEN {"RoundedCorners"} ELSE {})
                         \cup (IF Top(ctx.opacityStack) THEN {"Modulate"} ELSE {}),
         tex |-> IF item.kind = "border" THEN 0 ELSE item.tex,
         verts |-> item.verts]

\* The branch of createRenderNode on the item's type.
EmitNode(item, ctx) ==
    IF \/ item.kind \in TexturedKinds /\ EmitsTexturedNode(item)
       \/ item.kind = "border" /\ item.verts > 0
    THEN [ctx EXCEPT !.renderNodes = Append(@, NodeOf(item, ctx)),
                     !.releasePoints = @ \/ (item.kind = "surface" /\ item.release)]
    ELSE ctx

\* the corner stack left as it is at the end of createRenderNode
PopCorner_Skipped(stack) == stack

\* if (!context->cornerStack.isEmpty()) context->cornerStack.pop();
PopCorner(stack) == IF stack # <<>> THEN Pop(stack) ELSE stack

\* the second loop without its test of z(): every child is taken again
SkippedInFront_Never(child) == FALSE

\* if (childItem->z() < 0) continue;
SkippedInFront(child) == child.behind

\* createRenderNode(item, context): the context afterwards.
RECURSIVE CreateRenderNode(_, _)
RECURSIVE CreateBehindNodes(_, _, _)
RECURSIVE CreateFrontNodes(_, _, _)

\* The first loop over sortedChildItems: it ends at the first child with
\* z() >= 0 and recurses into the children that are explicitly visible.
CreateBehindNodes(children, i, ctx) ==
    IF i > Len(children) \/ ~children[i].behind THEN ctx
    ELSE CreateBehindNodes(children, i + 1,
            IF children[i].visible
            THEN CreateRenderNode(children[i], Visit(ctx, i)) ELSE ctx)

\* The second loop over sortedChildItems: it passes over the children with
\* z() < 0 and recurses into the others that are explicitly visible.
CreateFrontNodes(children, i, ctx) ==
    IF i > Len(children) THEN ctx
    ELSE CreateFrontNodes(children, i + 1,
            IF ~SkippedInFront(children[i]) /\ children[i].visible
            THEN CreateRenderNode(children[i], Visit(ctx, i)) ELSE ctx)

CreateRenderNode(item, ctx) ==
    LET pushed == [ctx EXCEPT !.transformStack = @ + 1,
                              !.opacityStack = Append(@, Top(@) \/ item.translucent)]
        behindDone == CreateBehindNodes(item.children, 1, pushed)
        cornered == IF item.radius
                    THEN [behindDone EXCEPT !.cornerStack = Append(@, TRUE)]
                    ELSE IF behindDone.cornerStack # <<>>
                    THEN [behindDone EXCEPT !.cornerStack = Append(@, Top(@))]
                    ELSE behindDone
        frontDone == CreateFrontNodes(item.children, 1, EmitNode(item, Visit(cornered, 0)))
    IN  [frontDone EXCEPT !.transformStack = @ - 1,
                          !.opacityStack = Pop(@),
                          !.cornerStack = PopCorner(@)]

RECURSIVE TotalVertices(_)
TotalVertices(nodes) ==
    IF nodes = <<>> THEN 0 ELSE Head(nodes).verts + TotalVertices(Tail(nodes))

\* The "update and bind descriptor sets" block for one node: "bound" when a
\* set was allocated, written and bound, else why the node is skipped.
Binding(node, sets, pastMaxSets) ==
    IF node.tex = 0 THEN "no_texture"
    ELSE IF ~AllocateDescriptorSetOn(sets, pastMaxSets) THEN "no_descriptor_set"
    ELSE IF ~texValid[node.tex] THEN "null_view"
    ELSE "bound"

\* vkCmdDraw recorded although nothing was bound for the node
DrawRecorded_Always(binding) == TRUE

\* Every other exit of the block is a continue: vkCmdDraw follows a bound set.
DrawRecorded(binding) == binding = "bound"

\* The per-node loop of renderNodes from node i on; st carries the pipeline
\* cache, the descriptor sets handed out, the uniform counter and buffer, what
\* the command buffer references, and the outcome of each node so far.
RECURSIVE RenderNodeLoop(_, _, _, _, _)
RenderNodeLoop(nodes, i, firstVertex, failing, st) ==
    IF i > Len(nodes) THEN st
    ELSE
    LET node == nodes[i]
        p == Pipeline(st.cache, node.traits, failing)
        slot == st.uniformIndex % UniformSlots
        binding == Binding(node, st.sets, st.pastMaxSets)
        bound == binding = "bound"
        next(s) == RenderNodeLoop(nodes, i + 1, firstVertex + node.verts, failing, s)
        entry(why, set) == [node |-> node, pipeline |-> p.result, set |-> set,
                            firstVertex |-> firstVertex, outcome |-> why]
        skip(why, s) == next([s EXCEPT !.draws = Append(@, why),
                                       !.log = Append(@, entry(why, FALSE))])
        afterBinding ==
            [st EXCEPT !.cache = p.cache,
                       !.sets = IF binding \in {"bound", "null_view"} /\ @ < PoolMaxSets
                                THEN @ + 1 ELSE @,
                       !.uniformIndex = IF bound THEN (@ + 1) % UniformSlots ELSE @,
                       !.uploaded = IF bound THEN @ \cup {slot} ELSE @,
                       !.rec = IF bound
                               THEN [@ EXCEPT !.texs = @ \cup {node.tex},
                                              !.ubos = @ \cup {slot},
                                              !.uniformsWritten = @ \/ slot \in st.rec.ubos]
                               ELSE @]
    IN  IF p.result = NoPipeline
        THEN skip("no_pipeline", st)
        ELSE IF ~DrawRecorded(binding)
        THEN skip(binding, afterBinding)
        ELSE next([afterBinding EXCEPT
                     !.rec.cells = @ \cup
                         (Cells \cap (firstVertex .. (firstVertex + node.verts - 1))),
                     !.passes = @ \cup {p.result.rp},
                     !.draws = Append(@, "drawn"),
                     !.log = Append(@, entry("drawn", bound))])

\* beginFrame(renderTarget, viewport)
RendererBeginFrame ==
    /\ UNCHANGED sideVars
    /\ pc = "begun"
    /\ pc' = "recording"
    /\ \E outcome \in {"ok", "no_context", "no_command_buffer", "begin_failed"} :
          /\ (outcome # "ok" => MayFail)
          /\ Failed(IF outcome # "ok" THEN 1 ELSE 0)
          /\ m_outputsInFlight' = IF outcome = "no_context" THEN m_outputsInFlight
                                  ELSE m_outputsInFlight + 1
          /\ commandBuffersAllocated' =
                IF outcome \in {"ok", "begin_failed"} THEN commandBuffersAllocated + 1
                ELSE commandBuffersAllocated
          /\ m_currentCommandBuffer' =
                IF outcome \in {"ok", "begin_failed"} THEN TRUE
                ELSE IF outcome = "no_command_buffer" THEN FALSE
                ELSE m_currentCommandBuffer
          /\ cmdRecording' = (outcome = "ok")
          /\ m_currentFramebuffer' = IF outcome = "ok" THEN TRUE ELSE m_currentFramebuffer
          /\ m_currentSyncInfo' = IF outcome = "ok" THEN m_currentFrame ELSE m_currentSyncInfo
          /\ recorded' = IF outcome \in {"ok", "begin_failed"} THEN EmptyRecording
                          ELSE recorded
    /\ UNCHANGED <<swapVars, syncVars, workspaceSize, surface, pipeVars, descriptorSetsAllocated,
                   arenaOverflow, m_releasePoints, uniformIndex,
                   texVars, queue, itemsThisFrame, obsVars>>

\* The upload at the head of renderNodes and the uniform uploads of its loop
\* land in memory that the submitted command buffers in q may still read.
Overwritten(q, cells, slots) ==
    [i \in 1 .. Len(q) |->
        [q[i] EXCEPT !.rec.vertsWritten = @ \/ (q[i].rec.cells \cap cells # {}),
                     !.rec.uniformsWritten = @ \/ (q[i].rec.ubos \cap slots # {})]]

\* createRenderNode calls preprocess() on every item it visits: true when one
\* of them is an image item.
RECURSIVE HasImageItem(_)
HasImageItem(item) ==
    \/ item.kind = "image"
    \/ \E i \in 1 .. Len(item.children) :
          item.children[i].visible /\ HasImageItem(item.children[i])

\* ImageItemVulkan::preprocess: an image whose cache key changed is uploaded
\* (VulkanTexture::upload or update) with single-time commands, which end in
\* vkQueueWaitIdle.
ImagePreprocess(keyChanged) == IF keyChanged THEN {"vkQueueWaitIdle"} ELSE {}

\* Every command buffer submitted so far has completed (a CPU wait on the
\* newest fence, vkQueueWaitIdle or vkDeviceWaitIdle).
FencesAfterDrain == [s \in Slots |-> IF FencePending(s) THEN "signaled" ELSE m_inFlightFences[s]]

\* renderItem(...): createRenderNode preprocesses the items and builds the
\* node list, renderNodes uploads the vertices of all nodes at offset 0 of the
\* streaming buffer and draws.
RenderItemWithin(limit, pastMaxSets) ==
    /\ UNCHANGED <<stillVars, lastEndFrame, recreateInvoked>>
    /\ pc = "recording"
    /\ itemsThisFrame < limit
    /\ itemsThisFrame' = itemsThisFrame + 1
    /\ IF ~m_currentCommandBuffer
       THEN UNCHANGED <<pipeVars, ctxVars, rendVars, queue, lastDraws, lastPasses, lastNodes,
                        faults, cpuWaits, m_inFlightFences>>
       ELSE \E tree \in {<<CreateRenderNode(item, BaseContext), HasImageItem(item)>> :
                            item \in SceneItems},
               imageChanged \in BOOLEAN,
               failing \in {{}, {{"MapTexture", "Modulate"}}, TraitSets} :
            LET context == tree[1]
                waits == IF tree[2] THEN ImagePreprocess(imageChanged) ELSE {}
                idle == waits # {}
                nodes == context.renderNodes
                total == TotalVertices(nodes)
                cells == Cells \cap (0 .. (total - 1))
                st == RenderNodeLoop(nodes, 1, 0, failing,
                         [cache |-> m_pipelines, sets |-> descriptorSetsAllocated,
                          pastMaxSets |-> pastMaxSets,
                          uniformIndex |-> uniformIndex, uploaded |-> {},
                          rec |-> [recorded EXCEPT
                                     !.vertsWritten = @ \/ (recorded.cells \cap cells # {})],
                          passes |-> {}, draws |-> <<>>, log |-> <<>>])
            IN  /\ (failing # {} => MayFail)
                /\ Failed(IF failing # {} THEN 1 ELSE 0)
                /\ m_releasePoints' = (m_releasePoints \/ context.releasePoints)
                /\ arenaOverflow' = (total > ArenaCells)
                /\ (imageChanged => tree[2])
                /\ cpuWaits' = cpuWaits \cup waits
                /\ m_inFlightFences' = IF idle THEN FencesAfterDrain ELSE m_inFlightFences
                /\ queue' = IF idle THEN <<>> ELSE Overwritten(queue, cells, st.uploaded)
                /\ m_pipelines' = st.cache
                /\ descriptorSetsAllocated' = st.sets
                /\ uniformIndex' = st.uniformIndex
                /\ recorded' = st.rec
                /\ lastDraws' = st.draws
                /\ lastPasses' = st.passes
                /\ lastNodes' = st.log
                /\ UNCHANGED <<pm_renderPass, commandBuffersAllocated,
                               m_currentCommandBuffer, cmdRecording, m_currentFramebuffer,
                               m_currentSyncInfo, m_outputsInFlight>>
    /\ UNCHANGED <<swapVars, m_imageAvailableSemaphores, m_renderFinishedSemaphores,
                   workspaceSize, surface, texVars, pc,
                   presentedFrames, lastAcquire, chain, recovery, staleReported,
                   presentOutOfDate>>

\* renderItem for a scene of MaxItemsPerFrame windows
RenderItem == RenderItemWithin(MaxItemsPerFrame, FALSE)

\* renderItem for a scene of MaxWindows windows, each painted once per frame
RenderWindow == RenderItemWithin(MaxWindows, FALSE)

\* the same on a driver that hands out descriptor sets past the pool's maxSets
RenderWindowPastMaxSets == RenderItemWithin(MaxWindows, TRUE)

Submission(slot) == [slot |-> slot, rec |-> recorded]
SyncSubmission == [slot |-> NoSlot, rec |-> EmptyRecording]

\* endFrame(), the branch with swapchain semaphores: submit waits on
\* image_available, signals render_finished and the in-flight fence; with
\* release points a second submit waits on render_finished.
EndFrameGpuSync(slot) ==
    \E submitOk \in BOOLEAN, fenceOk \in BOOLEAN, syncSubmitOk \in BOOLEAN,
       exportOk \in BOOLEAN :
       LET follow == submitOk /\ m_releasePoints /\ SupportsExternalFenceFd
                     /\ fenceOk /\ syncSubmitOk
           allOk == submitOk /\ fenceOk /\ syncSubmitOk /\ exportOk
       IN
       /\ (~allOk => MayFail)
       /\ Failed(IF allOk THEN 0 ELSE 1)
       /\ (~submitOk => fenceOk /\ syncSubmitOk /\ exportOk)
       /\ (~(m_releasePoints /\ SupportsExternalFenceFd) => fenceOk /\ syncSubmitOk /\ exportOk)
       /\ (~fenceOk => syncSubmitOk /\ exportOk)
       /\ (~syncSubmitOk => exportOk)
       /\ lastEndFrame' = <<[collected |-> m_releasePoints, fenced |-> follow /\ exportOk,
                             cleared |-> submitOk]>>
       /\ UNCHANGED cpuWaits
       /\ m_currentCommandBuffer' = FALSE
       /\ m_currentFramebuffer' = FALSE
       /\ m_currentSyncInfo' = NoSlot
       /\ cmdRecording' = FALSE
       /\ m_releasePoints' = IF submitOk THEN FALSE ELSE m_releasePoints
       /\ m_outputsInFlight' = IF submitOk /\ m_outputsInFlight > 0
                               THEN m_outputsInFlight - 1 ELSE m_outputsInFlight
       /\ m_imageAvailableSemaphores' =
             IF submitOk
             THEN [m_imageAvailableSemaphores EXCEPT ![slot] = IF @ > 0 THEN @ - 1 ELSE 0]
             ELSE m_imageAvailableSemaphores
       /\ m_renderFinishedSemaphores' =
             IF submitOk /\ ~follow
             THEN [m_renderFinishedSemaphores EXCEPT ![slot] = Min(@ + 1, 2)]
             ELSE m_renderFinishedSemaphores
       /\ queue' = IF ~submitOk THEN queue
                   ELSE IF follow THEN queue \o <<Submission(slot), SyncSubmission>>
                   ELSE Append(queue, Submission(slot))
       /\ chain' = IF ~submitOk THEN chain
                   ELSE chain \o <<IF m_imageAvailableSemaphores[slot] > 0
                                   THEN "submit" ELSE "submit_unsignaled">>
                              \o (IF follow THEN <<"sync_wait">> ELSE <<>>)
       /\ UNCHANGED m_inFlightFences

\* endFrame(), the branch without swapchain semaphores: an exportable fence
\* for the release points, else a blocking wait on the context's fence.
EndFrameFallback ==
    \E path \in {"export", "export_wait", "blocking", "submit_failed"} :
       /\ (path \in {"export", "export_wait"} => SupportsExternalFenceFd /\ m_releasePoints)
       /\ (path \in {"export_wait", "submit_failed"} => MayFail)
       /\ Failed(IF path \in {"export_wait", "submit_failed"} THEN 1 ELSE 0)
       /\ lastEndFrame' = <<[collected |-> m_releasePoints, fenced |-> path = "export",
                             cleared |-> path # "submit_failed"]>>
       /\ cpuWaits' = cpuWaits \cup (IF path \in {"export_wait", "blocking"}
                                     THEN {"vkWaitForFences"} ELSE {})
       /\ m_currentCommandBuffer' = FALSE
       /\ m_currentFramebuffer' = FALSE
       /\ m_currentSyncInfo' = NoSlot
       /\ cmdRecording' = FALSE
       /\ m_releasePoints' = IF path = "submit_failed" THEN m_releasePoints ELSE FALSE
       /\ m_outputsInFlight' = IF path = "blocking" /\ m_outputsInFlight > 0
                               THEN m_outputsInFlight - 1 ELSE m_outputsInFlight
       /\ queue' = IF path = "export" THEN Append(queue, Submission(NoSlot))
                   ELSE IF path = "submit_failed" THEN queue
                   ELSE <<>>
       /\ m_inFlightFences' = IF path \in {"export_wait", "blocking"} THEN FencesAfterDrain
                              ELSE m_inFlightFences
       /\ chain' = IF path = "submit_failed" THEN chain ELSE Append(chain, "submit_nosync")
       /\ UNCHANGED <<m_imageAvailableSemaphores, m_renderFinishedSemaphores>>

\* endFrame()
RendererEndFrame ==
    /\ UNCHANGED <<stillVars, recreateInvoked>>
    /\ pc = "recording"
    /\ pc' = "ended"
    /\ \E endOk \in BOOLEAN :
          IF ~m_currentCommandBuffer \/ ~endOk
          THEN /\ (~m_currentCommandBuffer => endOk)
               /\ (~endOk => MayFail)
               /\ Failed(IF endOk THEN 0 ELSE 1)
               /\ lastEndFrame' = <<[collected |-> m_releasePoints, fenced |-> FALSE,
                                     cleared |-> FALSE]>>
               /\ UNCHANGED <<syncVars, rendVars, queue, chain, cpuWaits>>
          ELSE /\ IF m_currentSyncInfo # NoSlot
                  THEN EndFrameGpuSync(m_currentSyncInfo)
                  ELSE EndFrameFallback
               /\ recorded' = EmptyRecording
               /\ UNCHANGED uniformIndex
    /\ UNCHANGED <<swapVars, workspaceSize, surface, pipeVars, ctxVars, texVars, itemsThisFrame,
                   presentedFrames, lastAcquire, recovery, staleReported,
                   presentOutOfDate>>
    /\ lastDraws' = <<>>
    /\ lastPasses' = {}
    /\ lastNodes' = <<>>

\* ------------------------------------------------------------- textures

Filters == {"NEAREST", "LINEAR"}
WrapModes == {"CLAMP_TO_EDGE", "REPEAT"}

\* Handles of texture t are destroyed on the spot: every submitted command
\* buffer that references them and has not completed now reads freed objects.
DestroyedInPlace(t) ==
    [i \in 1 .. Len(queue) |->
        IF t \in queue[i].rec.texs THEN [queue[i] EXCEPT !.rec.lost = @ \cup {t}] ELSE queue[i]]

\* VulkanTexture::cleanup, from the destructor when the owner drops the texture
\* (ImageItemVulkan::preprocess with a null image, an item going away).
TextureCleanup(t) ==
    /\ UNCHANGED sideVars
    /\ pc = "idle"
    /\ texValid[t]
    /\ texValid' = [texValid EXCEPT ![t] = FALSE]
    /\ m_filter' = [m_filter EXCEPT ![t] = "LINEAR"]
    /\ m_wrapMode' = [m_wrapMode EXCEPT ![t] = "CLAMP_TO_EDGE"]
    /\ queue' = DestroyedInPlace(t)
    /\ UNCHANGED <<swapVars, syncVars, workspaceSize, surface, pipeVars, ctxVars, rendVars, loopVars,
                   obsVars>>

\* VulkanSurfaceTextureX11::create for a pixmap of the same or of another size.
SurfaceTextureCreate(t) ==
    /\ UNCHANGED sideVars
    /\ pc = "idle"
    /\ \E sameSize \in BOOLEAN, ok \in BOOLEAN :
          IF texValid[t] /\ sameSize
          THEN /\ ok
               /\ UNCHANGED <<texVars, queue, faults>>
          ELSE /\ (~ok => MayFail)
               /\ Failed(IF ok THEN 0 ELSE 1)
               /\ texValid' = [texValid EXCEPT ![t] = ok]
               /\ m_filter' = [m_filter EXCEPT ![t] = "LINEAR"]
               /\ m_wrapMode' = [m_wrapMode EXCEPT ![t] = "CLAMP_TO_EDGE"]
               /\ queue' = IF texValid[t] THEN DestroyedInPlace(t) ELSE queue
    /\ UNCHANGED <<swapVars, syncVars, workspaceSize, surface, pipeVars, ctxVars, rendVars, pc,
                   itemsThisFrame, obsVars>>

\* setFilter(filter): updateSampler destroys the sampler and creates another.
SetFilter(t) ==
    /\ UNCHANGED sideVars
    /\ pc = "idle"
    /\ texValid[t]
    /\ \E filter \in Filters :
          IF m_filter[t] # filter
          THEN /\ m_filter' = [m_filter EXCEPT ![t] = filter]
               /\ queue' = DestroyedInPlace(t)
          ELSE UNCHANGED <<m_filter, queue>>
    /\ UNCHANGED <<swapVars, syncVars, workspaceSize, surface, pipeVars, ctxVars, rendVars, texValid,
                   m_wrapMode, loopVars, obsVars>>

\* setWrapMode(mode)
SetWrapMode(t) ==
    /\ UNCHANGED sideVars
    /\ pc = "idle"
    /\ texValid[t]
    /\ \E mode \in WrapModes :
          IF m_wrapMode[t] # mode
          THEN /\ m_wrapMode' = [m_wrapMode EXCEPT ![t] = mode]
               /\ queue' = DestroyedInPlace(t)
          ELSE UNCHANGED <<m_wrapMode, queue>>
    /\ UNCHANGED <<swapVars, syncVars, workspaceSize, surface, pipeVars, ctxVars, rendVars, texValid,
                   m_filter, loopVars, obsVars>>

\* ------------------------------------------------ VulkanTexture layouts

\* transitionLayout(cmd, oldLayout, newLayout, ...): the barrier is recorded
\* and the tracked layout set, whatever the layouts are.
RecordTransition(layouts, t, newLayout) ==
    [tracked |-> [layouts.tracked EXCEPT ![t] = newLayout],
     recorded |-> [layouts.recorded EXCEPT ![t] = newLayout]]

\* A raw VkImageMemoryBarrier on the image of t, the texture object not told.
RecordBarrier(layouts, t, newLayout) ==
    [tracked |-> layouts.tracked,
     recorded |-> [layouts.recorded EXCEPT ![t] = newLayout]]

CurrentLayouts == [tracked |-> m_currentLayout, recorded |-> recordedLayout]

SetLayouts(layouts) ==
    /\ m_currentLayout' = layouts.tracked
    /\ recordedLayout' = layouts.recorded
    /\ layoutBeforeCopy' = <<>>

\* VulkanTexture::transitionLayout called by a user of the texture
TransitionLayout(t) ==
    /\ \E oldLayout \in Layouts, newLayout \in Layouts :
          SetLayouts(RecordTransition(CurrentLayouts, t, newLayout))
    /\ UNCHANGED <<itemVars, frameVars, formatVars, calls, surfaceVars, failVars, backendVars>>

\* VulkanTexture::upload: a texture with a fresh image, filled from a staging buffer.
TextureUpload(t) ==
    /\ LET created == [tracked |-> [m_currentLayout EXCEPT ![t] = "UNDEFINED"],
                       recorded |-> [recordedLayout EXCEPT ![t] = "UNDEFINED"]]
           toDst == RecordTransition(created, t, "TRANSFER_DST_OPTIMAL")
       IN  SetLayouts(RecordTransition(toDst, t, "SHADER_READ_ONLY_OPTIMAL"))
    /\ UNCHANGED <<itemVars, frameVars, formatVars, calls, surfaceVars, failVars, backendVars>>

\* VulkanTexture::update(image, region)
TextureUpdate(t) ==
    /\ LET toDst == RecordTransition(CurrentLayouts, t, "TRANSFER_DST_OPTIMAL")
       IN  SetLayouts(RecordTransition(toDst, t, "SHADER_READ_ONLY_OPTIMAL"))
    /\ UNCHANGED <<itemVars, frameVars, formatVars, calls, surfaceVars, failVars, backendVars>>

\* VulkanFramebuffer::blitFrom(cmd, source, ...) on the framebuffer of dst
BlitFrom(dst, source) ==
    /\ dst # source
    /\ LET toTransfer == RecordBarrier(RecordBarrier(CurrentLayouts, source, "TRANSFER_SRC_OPTIMAL"),
                                       dst, "TRANSFER_DST_OPTIMAL")
           back == RecordBarrier(RecordBarrier(toTransfer, source, "COLOR_ATTACHMENT_OPTIMAL"),
                                 dst, "SHADER_READ_ONLY_OPTIMAL")
       IN  SetLayouts(back)
    /\ UNCHANGED <<itemVars, frameVars, formatVars, calls, surfaceVars, failVars, backendVars>>

\* VulkanBackend::copyPixels on the colour texture of the current framebuffer:
\* "back to the original layout" reads currentLayout() after the first transition.
CopyPixels(t) ==
    /\ LET toSrc == RecordTransition(CurrentLayouts, t, "TRANSFER_SRC_OPTIMAL")
           back == RecordTransition(toSrc, t, toSrc.tracked[t])
       IN  /\ m_currentLayout' = back.tracked
           /\ recordedLayout' = back.recorded
    /\ layoutBeforeCopy' = <<[texture |-> t, tracked |-> m_currentLayout[t],
                              recorded |-> recordedLayout[t]]>>
    /\ UNCHANGED <<itemVars, frameVars, formatVars, calls, surfaceVars, failVars, backendVars>>


\* --------------------------------- VulkanPipelineManager, called directly

\* The last two entries.
LastTwo(seq) == IF Len(seq) > 2 THEN SubSeq(seq, Len(seq) - 1, Len(seq)) ELSE seq

\* setRenderPass(renderPass) by any owner of a render pass
ManagerSetRenderPass ==
    /\ \E renderPass \in 0 .. NumRenderPasses :
          /\ pm_renderPass' = SetRenderPass(renderPass).renderPass
          /\ m_pipelines' = SetRenderPass(renderPass).cache
          /\ calls' = IF pm_renderPass # renderPass THEN <<>> ELSE calls
    /\ UNCHANGED <<swapVars, syncVars, workspaceSize, surface, ctxVars, rendVars, texVars, queue,
                   loopVars, obsVars, itemVars, frameVars, formatVars, layoutVars, surfaceVars, failVars>>

\* pipeline(traits), where VulkanPipeline::create fails or not for the traits
\* and for their fallback.
ManagerPipeline ==
    /\ \E traits \in TraitSets, buildFails \in BOOLEAN, fallbackFails \in BOOLEAN :
          LET failing == (IF buildFails THEN {traits} ELSE {})
                           \cup (IF fallbackFails THEN {FallbackTraits(traits)} ELSE {})
              p == Pipeline(m_pipelines, traits, failing)
          IN  /\ m_pipelines' = p.cache
              /\ calls' = LastTwo(Append(calls, [traits |-> traits,
                                                 buildFailed |-> traits \in failing,
                                                 created |-> p.created,
                                                 result |-> p.result]))
    /\ UNCHANGED <<swapVars, syncVars, workspaceSize, surface, pm_renderPass, ctxVars, rendVars,
                   texVars, queue, loopVars, obsVars, itemVars, frameVars, formatVars, layoutVars, surfaceVars, failVars>>

\* ------------------------------- VulkanSurfaceTextureX11, called directly

\* The check of create() for reusing the texture it has.
ReuseTexture(texture, size, currentSize) == texture # 0 /\ size = currentSize

\* What can happen to the DMA-BUF import of create(): it is not attempted
\* (no import support, no DRI3, KWIN_VULKAN_FORCE_CPU), or createWithDmaBuf
\* fails at one of its steps, or it goes on to import the planes of a
\* multi-plane format, or it imports the one plane.
DmaBufOutcomes == {"not_supported", "no_reply", "no_fds", "unsupported_depth", "dup_failed",
                   "import_failed", "multi_plane", "imported"}

\* What can happen to the CPU upload of create().
CpuOutcomes == {"allocate_failed", "staging_failed", "upload_failed", "uploaded"}

\* createMultiPlaneWithDmaBuf keeping the planes imported before the one that failed
CreateMultiPlaneWithDmaBuf_NoReset(planes, planeCount, failedPlane) ==
    IF failedPlane \in 1 .. planeCount
    THEN [ok |-> FALSE, planes |-> planes + (failedPlane - 1)]
    ELSE [ok |-> TRUE, planes |-> planes + planeCount]

\* createMultiPlaneWithDmaBuf(attributes): the planes are imported one by one,
\* failedPlane being the first whose import fails (0: none).
CreateMultiPlaneWithDmaBuf(planes, planeCount, failedPlane) ==
    IF failedPlane \in 1 .. planeCount
    THEN [ok |-> FALSE, planes |-> 0]
    ELSE [ok |-> TRUE, planes |-> planes + planeCount]

\* createWithDmaBuf(): whether it succeeded and the length of m_texture.planes.
CreateWithDmaBuf(planes, outcome, planeCount, failedPlane) ==
    IF outcome \in {"no_reply", "no_fds", "unsupported_depth", "dup_failed", "import_failed"}
    THEN [ok |-> FALSE, planes |-> planes]
    ELSE IF outcome = "multi_plane"
    THEN CreateMultiPlaneWithDmaBuf(planes, planeCount, failedPlane)
    ELSE [ok |-> TRUE, planes |-> planes + 1]

\* createWithCpuUpload(): its result, the planes, whether there is a staging
\* buffer and whether the pixels of the pixmap reached the texture.
\* updateWithCpuUpload returns nothing, whatever happened in it.
CreateWithCpuUpload(planes, staging, outcome) ==
    IF outcome = "allocate_failed"
    THEN [ok |-> FALSE, planes |-> planes, staging |-> staging, uploaded |-> FALSE]
    ELSE IF outcome = "staging_failed"
    THEN [ok |-> FALSE, planes |-> 0, staging |-> FALSE, uploaded |-> FALSE]
    ELSE [ok |-> TRUE, planes |-> planes + 1, staging |-> TRUE,
          uploaded |-> (outcome = "uploaded")]

\* create(), where m_pixmap is valid or not and names the pixmap
\* currentPixmapId of size currentSize (0: empty), and the two import paths
\* end as dmaBuf and cpu say.
SurfaceTextureX11Create ==
    /\ \E pixmapValid \in BOOLEAN, currentPixmapId \in PixmapIds, currentSize \in 0 .. NumSizes,
          dmaBuf \in DmaBufOutcomes, cpu \in CpuOutcomes, failedPlane \in 0 .. MaxPlanes :
          LET seen == [pixmapValid |-> pixmapValid,
                       cachedPixmapId |-> m_texture, cachedSize |-> m_size,
                       currentPixmapId |-> currentPixmapId, currentSize |-> currentSize]
              none == [dmaBuf |-> "none", dmaBufOk |-> FALSE, cpu |-> "none",
                       planesBeforeCpu |-> 0]
              cleared == 0
              imported == CreateWithDmaBuf(cleared, dmaBuf, MaxPlanes, failedPlane)
          IN  IF ~pixmapValid
              THEN /\ lastCreate' = <<[seen |-> seen, reused |-> FALSE, result |-> FALSE,
                                       paths |-> none]>>
                   /\ UNCHANGED <<m_size, m_texture, m_planes, m_stagingBuffer, m_useDmaBuf>>
              ELSE IF ReuseTexture(m_texture, m_size, currentSize)
              THEN /\ lastCreate' = <<[seen |-> seen, reused |-> TRUE, result |-> TRUE,
                                       paths |-> none]>>
                   /\ UNCHANGED <<m_size, m_texture, m_planes, m_stagingBuffer, m_useDmaBuf>>
              ELSE IF currentSize = 0
              THEN /\ m_size' = currentSize
                   /\ m_texture' = 0
                   /\ m_planes' = cleared
                   /\ m_stagingBuffer' = (m_stagingBuffer /\ m_texture = 0)
                   /\ lastCreate' = <<[seen |-> seen, reused |-> FALSE, result |-> FALSE,
                                       paths |-> none]>>
                   /\ UNCHANGED m_useDmaBuf
              ELSE IF dmaBuf # "not_supported" /\ imported.ok
              THEN /\ m_size' = currentSize
                   /\ m_texture' = currentPixmapId
                   /\ m_planes' = imported.planes
                   /\ m_stagingBuffer' = (m_stagingBuffer /\ m_texture = 0)
                   /\ m_useDmaBuf' = TRUE
                   /\ lastCreate' = <<[seen |-> seen, reused |-> FALSE, result |-> TRUE,
                                       paths |-> [dmaBuf |-> dmaBuf, dmaBufOk |-> TRUE,
                                                  cpu |-> "none", planesBeforeCpu |-> 0]]>>
              ELSE LET before == IF dmaBuf = "not_supported" THEN cleared ELSE imported.planes
                       staging == m_stagingBuffer /\ m_texture = 0
                       upload == CreateWithCpuUpload(before, staging, cpu)
                   IN  /\ m_size' = currentSize
                       /\ m_planes' = upload.planes
                       /\ m_texture' = IF upload.planes > 0 THEN currentPixmapId ELSE 0
                       /\ m_stagingBuffer' = upload.staging
                       /\ m_useDmaBuf' = IF upload.ok THEN FALSE ELSE m_useDmaBuf
                       /\ lastCreate' = <<[seen |-> seen, reused |-> FALSE, result |-> upload.ok,
                                           paths |-> [dmaBuf |-> dmaBuf, dmaBufOk |-> FALSE,
                                                      cpu |-> cpu, planesBeforeCpu |-> before]]>>
    /\ UNCHANGED <<itemVars, frameVars, formatVars, layoutVars, calls, failVars, backendVars>>

\* ------------------------------------------ formats of a DMA-BUF import

\* fourcc_code(a, b, c, d) of drm_fourcc.h, on character codes
FourCC(a, b, c, d) == a + b * 256 + c * 65536 + d * 16777216

\* 'X' 'R' '2' '4' and 'A' 'R' '2' '4'
DRM_FORMAT_XRGB8888 == FourCC(88, 82, 50, 52)
DRM_FORMAT_ARGB8888 == FourCC(65, 82, 50, 52)

\* createWithDmaBuf, "Determine DRM format from depth and bpp": 0 stands for
\* the branch that warns "Unsupported depth/bpp" and returns false.
DepthToDrmFormat(depth, bpp) ==
    IF depth = 24 /\ bpp = 32 THEN DRM_FORMAT_XRGB8888
    ELSE IF depth = 32 /\ bpp = 32 THEN DRM_FORMAT_ARGB8888
    ELSE 0

\* importDmaBufAsTexture: imageInfo.format = static_cast<VkFormat>(attributes.format),
\* the numeric value of the DRM fourcc is handed to vkCreateImage as is.
ImageFormatOf(drmFormat) == drmFormat

\* A value of the VkFormat enumeration other than VK_FORMAT_UNDEFINED: the
\* core formats, or a format added by an extension.
VkFormatDefined(format) ==
    \/ format \in 1 .. VK_FORMAT_LAST_CORE
    \/ format >= VK_FORMAT_FIRST_EXTENSION

\* xcb_dri3_buffer_from_pixmap_reply: the X server describes the buffers of
\* the window pixmap.
Dri3BufferFromPixmapReply ==
    /\ dri3Reply = <<>>
    /\ \E depth \in X11Depths, bpp \in X11BitsPerPixel, nfd \in 1 .. MaxPlanes :
          dri3Reply' = <<[depth |-> depth, bpp |-> bpp, nfd |-> nfd]>>
    /\ lastImport' = <<>>
    /\ UNCHANGED <<itemVars, frameVars, layoutVars, calls, surfaceVars, failVars, backendVars>>

\* createWithDmaBuf from the reply on: the DRM format of the depth, then the
\* single-plane import of VulkanContext::importDmaBufAsTexture.
ImportDmaBuf ==
    /\ dri3Reply # <<>>
    /\ \E supportsDmaBufImport \in BOOLEAN, created \in BOOLEAN :
          LET reply == dri3Reply[1]
              drmFormat == DepthToDrmFormat(reply.depth, reply.bpp)
              reached == drmFormat # 0 /\ supportsDmaBufImport
          IN  /\ (~reached => created)
              /\ lastImport' = <<[depth |-> reply.depth, bpp |-> reply.bpp,
                                  drmFormat |-> drmFormat,
                                  planeCount |-> reply.nfd,
                                  vkCreateImage |-> reached,
                                  format |-> IF reached THEN ImageFormatOf(drmFormat) ELSE 0,
                                  imported |-> reached /\ created]>>
    /\ dri3Reply' = <<>>
    /\ UNCHANGED <<itemVars, frameVars, layoutVars, calls, surfaceVars, failVars, backendVars>>

\* ------------------------------------ the backend after a failed init()

\* The stages of init(), in order.
InitStages == <<"instance", "physical_device", "device", "context", "overlay_window", "surface">>

\* m_context after init() failed at the stage: it is created at the fourth.
ContextAfterFailure(stage) ==
    IF stage \in {"instance", "physical_device", "device"} THEN "null"
    ELSE IF stage = "context" THEN "invalid"
    ELSE "valid"

\* init() failing at a stage before the swapchain: setFailed and return.
InitFails ==
    /\ pc = "init"
    /\ MayFail
    /\ Failed(1)
    /\ \E i \in 1 .. Len(InitStages) :
          /\ m_instance' = (i > 1)
          /\ m_device' = (i > 3)
          /\ m_context' = ContextAfterFailure(InitStages[i])
    /\ m_surface' = FALSE
    /\ m_failed' = TRUE
    /\ pc' = "failed"
    /\ UNCHANGED <<swapVars, syncVars, workspaceSize, surface, pipeVars, ctxVars, rendVars, texVars,
                   queue, itemsThisFrame, obsVars, itemVars, frameVars, formatVars, layoutVars, calls, surfaceVars, lastOp,
                   teardown>>

\* makeCurrent(): m_context && m_context->isValid()
MakeCurrent(context) == context = "valid"

\* VulkanLayer::doBeginFrame: what it returns on, "frame" when it goes on to
\* the fence and the acquire.
DoBeginFrameGate(context, swapchain) ==
    IF context = "null" THEN "no_context"
    ELSE IF ~swapchain THEN "no_swapchain"
    ELSE "frame"

\* X11StandaloneVulkanBackend::present up to the call of VulkanSwapchain::present
PresentGate(swapchain) == IF ~swapchain THEN "no_swapchain" ELSE "present"

\* A backend operation called on the backend whose init() failed.
OperationOnFailed ==
    /\ pc = "failed"
    /\ \E op \in {"begin_frame", "present", "make_current"} :
          lastOp' = <<[op |-> op,
                       outcome |-> IF op = "begin_frame" THEN DoBeginFrameGate(m_context, m_swapchain)
                                   ELSE IF op = "present" THEN PresentGate(m_swapchain)
                                   ELSE IF MakeCurrent(m_context) THEN "current"
                                   ELSE "not_current"]>>
    /\ UNCHANGED <<backendVars, itemVars, frameVars, formatVars, layoutVars, calls, surfaceVars, m_failed, m_context,
                   m_instance, m_device, m_surface, teardown>>

\* --------------------------------------------------------- teardown

\* VulkanSwapchain::cleanup, from the destructor, and cleanupSwapchain
SwapchainCleanup(device) ==
    IF ~device THEN <<>>
    ELSE <<"vkDeviceWaitIdle", "vkDestroySemaphore", "vkDestroyFence", "vkDestroyFramebuffer",
           "vkDestroyRenderPass", "vkDestroyImageView", "vkDestroySwapchainKHR">>

\* VulkanContext::cleanup, from the destructor
ContextCleanup(device, context) ==
    IF ~device THEN <<>>
    ELSE IF context = "valid"
    THEN <<"vkDeviceWaitIdle", "destroy_streaming_buffer", "vkDestroyPipeline", "vkDestroyFence",
           "vkDestroyDescriptorPool", "vkDestroyCommandPool">>
    ELSE <<"vkDeviceWaitIdle">>

\* VulkanBackend::cleanup destroying the instance before the device
BackendCleanup_InstanceFirst(device, instance) ==
    (IF instance THEN <<"vkDestroyInstance">> ELSE <<>>)
       \o (IF device THEN <<"vkDeviceWaitIdle", "vkDestroyDevice">> ELSE <<>>)

\* VulkanBackend::cleanup, from the destructor of the base class
BackendCleanup(device, instance) ==
    (IF device THEN <<"vkDeviceWaitIdle", "vkDestroyDevice">> ELSE <<>>)
       \o (IF instance THEN <<"vkDestroyInstance">> ELSE <<>>)

\* ~X11StandaloneVulkanBackend between two frames or after a failed init():
\* the swapchain, the context and the surface go, then the base class
\* destroys the device and the instance.
BackendDestroy ==
    /\ pc \in {"idle", "failed"}
    /\ pc' = "destroyed"
    /\ teardown' = (IF m_swapchain THEN SwapchainCleanup(m_device) ELSE <<>>)
                      \o (IF m_context # "null" THEN ContextCleanup(m_device, m_context) ELSE <<>>)
                      \o (IF m_surface THEN <<"vkDestroySurfaceKHR">> ELSE <<>>)
                      \o BackendCleanup(m_device, m_instance)
    /\ m_swapchain' = FALSE
    /\ m_images' = 0
    /\ m_imageViews' = 0
    /\ m_framebuffers' = 0
    /\ framebuffersBuilt' = 0
    /\ m_renderPass' = 0
    /\ m_context' = "null"
    /\ m_surface' = FALSE
    /\ m_device' = FALSE
    /\ m_instance' = FALSE
    /\ m_pipelines' = ClearCache
    /\ queue' = <<>>
    /\ UNCHANGED <<m_extent, renderPassSeq, m_currentFrame, m_currentImageIndex, m_needsRecreation,
                   syncVars, workspaceSize, surface, pm_renderPass, ctxVars, rendVars, texVars,
                   faults, itemsThisFrame, obsVars, itemVars, frameVars, formatVars, layoutVars, calls, surfaceVars,
                   m_failed, lastOp>>

\* renderItem up to its call of renderNodes: the context is set up and
\* createRenderNode walks the item tree.
BuildRenderContext ==
    /\ renderContext = NoContext
    /\ renderContext' = <<CreateRenderNode(sceneItem, BaseContext)>>
    /\ UNCHANGED <<sceneItem, frameVars, formatVars, layoutVars, calls, surfaceVars, failVars, backendVars>>

\* ------------------------------------------------------- specification

\* The whole backend.
Next ==
    \/ InitSwapchain
    \/ ScreenGeometryChanged
    \/ SwapchainRecreate
    \/ GpuComplete
    \/ LayerDoBeginFrameEnter
    \/ LayerDoBeginFrameProceed
    \/ RendererBeginFrame
    \/ RenderItem
    \/ RendererEndFrame
    \/ BackendPresent
    \/ \E t \in Textures : TextureCleanup(t)
    \/ \E t \in Textures : SurfaceTextureCreate(t)
    \/ \E t \in Textures : SetFilter(t)
    \/ \E t \in Textures : SetWrapMode(t)
    \/ \E t \in ColorTextures : TransitionLayout(t)
    \/ \E t \in ColorTextures : TextureUpload(t)
    \/ \E t \in ColorTextures : TextureUpdate(t)
    \/ \E dst \in ColorTextures, source \in ColorTextures : BlitFrom(dst, source)
    \/ \E t \in ColorTextures : CopyPixels(t)
    \/ ManagerSetRenderPass
    \/ ManagerPipeline
    \/ SurfaceTextureX11Create
    \/ Dri3BufferFromPixmapReply
    \/ ImportDmaBuf
    \/ InitFails
    \/ OperationOnFailed
    \/ BackendDestroy

Spec == Init /\ [][Next]_vars

\* The presenter alone: frames of an empty scene while the workspace geometry
\* changes and the swapchain is rebuilt.
NextPresent ==
    \/ InitSwapchain
    \/ ScreenGeometryChanged
    \/ SwapchainRecreate
    \/ GpuComplete
    \/ LayerDoBeginFrameEnter
    \/ LayerDoBeginFrameProceed
    \/ RendererBeginFrame
    \/ RendererEndFrame
    \/ BackendPresent

SpecPresent == Init /\ [][NextPresent]_vars

\* The same loop with the progress the platform provides: the GPU finishes the
\* command buffers it was given, and vkWaitForFences returns once its fence
\* is signaled.
SpecPresentLive ==
    /\ Init
    /\ [][NextPresent]_vars
    /\ WF_vars(GpuComplete)
    /\ WF_vars(LayerDoBeginFrameProceed)

\* The same loop driven by a compositor that keeps painting: every step of a
\* frame is taken when it can be, and the GPU finishes its work. Nothing
\* obliges the environment to resize the screen or an owner to call recreate.
SpecFramesLive ==
    /\ Init
    /\ [][NextPresent]_vars
    /\ WF_vars(GpuComplete)
    /\ WF_vars(InitSwapchain)
    /\ WF_vars(LayerDoBeginFrameEnter)
    /\ WF_vars(LayerDoBeginFrameProceed)
    /\ WF_vars(RendererBeginFrame)
    /\ WF_vars(RendererEndFrame)
    /\ WF_vars(BackendPresent)

\* The scene on a workspace of fixed geometry: items are drawn and their
\* textures change between frames.
NextScene ==
    \/ InitSwapchain
    \/ GpuComplete
    \/ LayerDoBeginFrameEnter
    \/ LayerDoBeginFrameProceed
    \/ RendererBeginFrame
    \/ RenderItem
    \/ RendererEndFrame
    \/ BackendPresent
    \/ \E t \in Textures : TextureCleanup(t)
    \/ \E t \in Textures : SurfaceTextureCreate(t)
    \/ \E t \in Textures : SetFilter(t)
    \/ \E t \in Textures : SetWrapMode(t)

SpecScene == Init /\ [][NextScene]_vars

\* Frames of several windows: renderItem is called once per window between
\* beginFrame and endFrame; the textures are left alone.
NextWindows ==
    \/ InitSwapchain
    \/ GpuComplete
    \/ LayerDoBeginFrameEnter
    \/ LayerDoBeginFrameProceed
    \/ RendererBeginFrame
    \/ RenderWindow
    \/ RendererEndFrame
    \/ BackendPresent

SpecWindows == Init /\ [][NextWindows]_vars

\* The same frames on a driver whose vkAllocateDescriptorSets keeps handing
\* out sets past the pool's maxSets, so that drawing goes on.
NextPastMaxSets ==
    \/ InitSwapchain
    \/ GpuComplete
    \/ LayerDoBeginFrameEnter
    \/ LayerDoBeginFrameProceed
    \/ RendererBeginFrame
    \/ RenderWindowPastMaxSets
    \/ RendererEndFrame
    \/ BackendPresent

SpecPastMaxSets == Init /\ [][NextPastMaxSets]_vars

\* Drawing across swapchain rebuilds, the textures left alone.
NextRebuild ==
    \/ InitSwapchain
    \/ ScreenGeometryChanged
    \/ SwapchainRecreate
    \/ GpuComplete
    \/ LayerDoBeginFrameEnter
    \/ LayerDoBeginFrameProceed
    \/ RendererBeginFrame
    \/ RenderItem
    \/ RendererEndFrame
    \/ BackendPresent

SpecRebuild == Init /\ [][NextRebuild]_vars

\* createRenderNode on every item tree of one or two levels, whose textures
\* exist or do not.
InitItems ==
    /\ InitBackend
    /\ texValid \in [Textures -> BOOLEAN]
    /\ sceneItem \in ItemTrees
    /\ renderContext = NoContext

NextItems == BuildRenderContext

SpecItems == InitItems /\ [][NextItems]_vars

\* createRenderNode on an item with up to MaxChildren children, which
\* sortedChildItems() hands over in ascending z.
SortedByZ(children) ==
    \A i, j \in 1 .. Len(children) : (i < j /\ children[j].behind) => children[i].behind

OrderRoots ==
    {a \in RootItems : a.kind = "surface" /\ a.tex = 1 /\ a.verts = 1
                        /\ ~a.translucent /\ ~a.release}
OrderChildren ==
    {WithChildren(a, <<>>) :
        a \in {c \in ChildItems : c.kind = "image" /\ c.tex = 1 /\ c.verts = 1
                                    /\ ~c.translucent /\ ~c.radius}}
OrderTrees ==
    {WithChildren(a, cs) :
        a \in OrderRoots,
        cs \in {l \in UNION {[1 .. n -> OrderChildren] : n \in 0 .. MaxChildren} :
                   SortedByZ(l)}}

InitOrder ==
    /\ InitBackend
    /\ texValid = [t \in Textures |-> TRUE]
    /\ sceneItem \in OrderTrees
    /\ renderContext = NoContext

NextOrder == BuildRenderContext

SpecOrder == InitOrder /\ [][NextOrder]_vars


\* The layouts of the framebuffers' colour textures under every operation
\* that records a barrier for them.
NextLayouts ==
    \/ \E t \in ColorTextures : TransitionLayout(t)
    \/ \E t \in ColorTextures : TextureUpload(t)
    \/ \E t \in ColorTextures : TextureUpdate(t)
    \/ \E dst \in ColorTextures, source \in ColorTextures : BlitFrom(dst, source)
    \/ \E t \in ColorTextures : CopyPixels(t)

SpecLayouts == Init /\ [][NextLayouts]_vars

\* The pipeline manager under calls of setRenderPass and pipeline in any order.
NextPipelines ==
    \/ ManagerSetRenderPass
    \/ ManagerPipeline

SpecPipelines == Init /\ [][NextPipelines]_vars

\* One surface texture while its window's pixmap is renamed and resized
\* between calls of create().
NextSurface == SurfaceTextureX11Create

SpecSurface == Init /\ [][NextSurface]_vars

\* Pixmaps of every depth and pixel size handed to the DMA-BUF import.
NextFormats == Dri3BufferFromPixmapReply \/ ImportDmaBuf

SpecFormats == Init /\ [][NextFormats]_vars

\* The presenter from init() to the destructor, init() failing at any stage
\* or not, and the operations the compositor calls on a failed backend.
NextLifetime ==
    \/ InitFails
    \/ OperationOnFailed
    \/ BackendDestroy
    \/ NextPresent

SpecLifetime == Init /\ [][NextLifetime]_vars

\* ------------------------------------------------------------ properties

InFlight == {queue[i] : i \in 1 .. Len(queue)}
Presented == chain # <<>> /\ chain[Len(chain)] \in {"present", "present_unsignaled"}
Outcomes(draws) == {draws[i] : i \in 1 .. Len(draws)}

\* C1: no image, view or sampler that a submitted command buffer references is
\* destroyed before that command buffer has completed and its fence signaled.
C1_NoDestroyWhileInFlight == \A q \in InFlight : q.rec.lost = {}

\* C2: no vertex region and no uniform slot that a submitted command buffer
\* reads is written again before that command buffer's fence has signaled.
C2_NoReuseWhileInFlight ==
    \A q \in InFlight : ~q.rec.vertsWritten /\ ~q.rec.uniformsWritten

\* C3: in a frame where no Vulkan call fails, the semaphore operations up to
\* present are exactly acquire (signals image_available), submit (waits on it,
\* signals render_finished), present (waits on render_finished).
C3_SemaphoreChain ==
    (faults = 0 /\ Presented) => chain = <<"acquire", "submit", "present">>

C5_BeginFrameAfterRecreateReturns ==
    (pc = "bf_wait" /\ recovery = "recreated") =>
        (m_inFlightFences[m_currentFrame] = "signaled" \/ FencePending(m_currentFrame))

C7_RecreatedBeforeNextFrame == pc = "bf_wait" => ~presentOutOfDate

\* C8: the frame index starts at 0 and is advanced exactly once per presented
\* frame, modulo MAX_FRAMES_IN_FLIGHT: 0, 1, 0, 1, ...
C8_FrameIndexAlternates == m_currentFrame = presentedFrames % MAX_FRAMES_IN_FLIGHT

C8_Witness == presentedFrames = MaxFrames /\ m_currentFrame = MaxFrames % MAX_FRAMES_IN_FLIGHT

\* C9: every pipeline that pipeline(traits) returns for a draw was built against
\* the render pass the swapchain has now.
C9_PipelinesOfCurrentRenderPass == \A rp \in lastPasses : rp = m_renderPass

\* C10: no node is skipped for want of a descriptor set: on exhaustion the pool
\* is reset and the allocation proceeds.
C10_ExhaustionRecovers == "no_descriptor_set" \notin Outcomes(lastDraws)

\* C11: every pipeline that pipeline(traits) returned to renderNodes is the one
\* the cache holds under those traits and was built against a render pass (its
\* handle is not null); a node whose call returned null has no draw recorded.
C11_PipelineOwnedOrNoDraw ==
    \A i \in 1 .. Len(lastNodes) :
       LET e == lastNodes[i] IN
       /\ e.pipeline # NoPipeline =>
             (m_pipelines[e.node.traits] = e.pipeline /\ e.pipeline.rp # 0)
       /\ e.pipeline = NoPipeline => e.outcome # "drawn"

C11_Witness ==
    \E i \in 1 .. Len(lastNodes) :
       /\ lastNodes[i].pipeline # NoPipeline
       /\ lastNodes[i].pipeline.built # lastNodes[i].node.traits
       /\ lastNodes[i].outcome = "drawn"

\* C12: no node that carries MAP_TEXTURE is in the render-node list without a
\* texture object that exists, whatever the kind of the item it was built for.
C12_NoTexturedNodeWithoutTexture ==
    \A c \in 1 .. Len(renderContext) :
       \A i \in 1 .. Len(renderContext[c].renderNodes) :
          LET node == renderContext[c].renderNodes[i] IN
          "MapTexture" \in node.traits => (node.tex # 0 /\ texValid[node.tex])

C12_Witness ==
    /\ renderContext # NoContext
    /\ sceneItem.kind = "shadow"
    /\ sceneItem.verts > 0
    /\ sceneItem.tex # 0
    /\ ~texValid[sceneItem.tex]
    /\ sceneItem.children # <<>>
    /\ sceneItem.children[1].kind = "image"
    /\ sceneItem.children[1].visible
    /\ sceneItem.children[1].verts > 0
    /\ sceneItem.children[1].tex = 0
    /\ renderContext[1].renderNodes = <<>>

\* C13: every draw recorded by renderNodes follows, for the same node, the
\* binding of a descriptor set allocated and written for that node.
C13_DrawHasDescriptorSet ==
    \A i \in 1 .. Len(lastNodes) : lastNodes[i].outcome = "drawn" => lastNodes[i].set

C13_Witness ==
    \E i \in 1 .. Len(lastNodes) :
       /\ lastNodes[i].outcome = "drawn"
       /\ lastNodes[i].set
       /\ descriptorSetsAllocated = PoolMaxSets

\* C14: every node of the list with vertices and without MAP_TEXTURE, such as
\* the BORDER node of an outlined border, has its draw recorded unless no
\* pipeline could be had for it.
C14_UntexturedNodesDrawn ==
    \A i \in 1 .. Len(lastNodes) :
       LET e == lastNodes[i] IN
       (e.node.verts > 0 /\ "MapTexture" \notin e.node.traits /\ e.pipeline # NoPipeline)
          => e.outcome = "drawn"

\* C15 as stated: after renderItem has built its context, the transform, opacity
\* and rounded-corner stacks are all empty.
C15_StacksEmptyAfterRenderItem ==
    \A c \in 1 .. Len(renderContext) :
       /\ renderContext[c].transformStack = 0
       /\ renderContext[c].opacityStack = <<>>
       /\ renderContext[c].cornerStack = <<>>

\* C15 amended: createRenderNode pops every push it made at any depth, so the
\* stacks are back to what renderItem set up: the one transform and the one
\* opacity renderItem pushed, which it never pops, and no corners.
C15_StacksBalanced ==
    \A c \in 1 .. Len(renderContext) :
       /\ renderContext[c].transformStack = BaseContext.transformStack
       /\ renderContext[c].opacityStack = BaseContext.opacityStack
       /\ renderContext[c].cornerStack = BaseContext.cornerStack

C15_Witness ==
    /\ renderContext # NoContext
    /\ sceneItem.radius
    /\ sceneItem.children # <<>>
    /\ sceneItem.children[1].visible
    /\ ~sceneItem.children[1].behind
    /\ ~sceneItem.children[1].radius
    /\ sceneItem.children[1].translucent
    /\ Len(renderContext[1].renderNodes) = 2
    /\ renderContext[1].cornerStack = <<>>

\* C16: no node is drawn from vertices beyond the streaming buffer's capacity,
\* and no vertex upload writes past the end of the buffer.
C16_DrawsWithinArena ==
    /\ ~arenaOverflow
    /\ \A i \in 1 .. Len(lastNodes) :
          lastNodes[i].outcome = "drawn" =>
             lastNodes[i].firstVertex + lastNodes[i].node.verts <= ArenaCells


\* C17: at every point the layout a texture tracks is the new layout of the
\* last transition recorded for its image, whichever operation recorded it:
\* transitionLayout, upload or update, a framebuffer blit, copyPixels.
C17_CurrentLayoutIsLastRecorded ==
    \A t \in ColorTextures : m_currentLayout[t] = recordedLayout[t]

LastCall == calls[Len(calls)]

\* C18: when building the pipeline for traits T fails, the manager retries
\* with exactly T & (MapTexture | UniformColor) and stores the pipeline it gets
\* under key T, so that a later pipeline(T) returns it without building again
\* (traits that the mask leaves unchanged have nothing else to retry with).
C18_FallbackIsMaskedTraits ==
    /\ calls # <<>> /\ LastCall.created # <<>> /\ LastCall.buildFailed
          /\ LastCall.traits \cap {"MapTexture", "UniformColor"} # LastCall.traits =>
          /\ LastCall.created
                = <<LastCall.traits, LastCall.traits \cap {"MapTexture", "UniformColor"}>>
          /\ LastCall.result # NoPipeline => m_pipelines[LastCall.traits] = LastCall.result
    /\ Len(calls) = 2 /\ calls[1].traits = calls[2].traits
          /\ calls[1].buildFailed /\ calls[1].result # NoPipeline =>
          calls[2].result = calls[1].result /\ calls[2].created = <<>>


\* C19 as stated: for any traits T, two pipeline(T) calls with no render-pass
\* change in between return the identical pipeline from the same cache entry.
C19_SameTraitsSamePipeline ==
    Len(calls) = 2 /\ calls[1].traits = calls[2].traits =>
       /\ calls[2].result = calls[1].result
       /\ calls[2].result # NoPipeline => calls[2].created = <<>>

\* C19: for any traits T, of two pipeline(T) calls with no render-pass change
\* in between, when the first returned a pipeline the second returns that same
\* object, out of the cache entry of T and without creating anything.
C19_SamePipelineOnceReturned ==
    Len(calls) = 2 /\ calls[1].traits = calls[2].traits /\ calls[1].result # NoPipeline =>
       /\ calls[2].result = calls[1].result
       /\ calls[2].created = <<>>
       /\ m_pipelines[calls[2].traits] = calls[2].result

\* Two calls for the same traits, the first answered by a pipeline it built.
C19_Witness ==
    /\ Len(calls) = 2
    /\ calls[1].traits = calls[2].traits
    /\ calls[1].created # <<>>
    /\ calls[1].result # NoPipeline
    /\ calls[2].result = calls[1].result

\* C20: create() on a surface texture does nothing exactly when the cached
\* pixmap id and the cached size both match the current pixmap; when either
\* differs the texture it had is dropped and the pixmap imported again.
C20_ReusedIffIdAndSizeMatch ==
    lastCreate # <<>> /\ lastCreate[1].seen.pixmapValid =>
       (lastCreate[1].reused <=>
           /\ lastCreate[1].seen.cachedPixmapId = lastCreate[1].seen.currentPixmapId
           /\ lastCreate[1].seen.cachedSize = lastCreate[1].seen.currentSize)

\* C21: when the CPU upload of create() fails at any step, the allocation of
\* the texture, the creation of the staging buffer or the read and upload of
\* the pixmap, isValid() is false afterwards.
C21_CpuUploadFailureInvalidates ==
    lastCreate # <<>> /\ lastCreate[1].paths.cpu \in CpuOutcomes \ {"uploaded"} => m_planes = 0

\* C22: whenever the DMA-BUF import was tried and failed, for whatever reason,
\* create() went on to the CPU upload with an empty plane list, and it
\* succeeded if the CPU upload did.
C22_DmaBufFailureFallsThrough ==
    lastCreate # <<>> /\ lastCreate[1].paths.dmaBuf \in DmaBufOutcomes \ {"not_supported"}
       /\ ~lastCreate[1].paths.dmaBufOk =>
          /\ lastCreate[1].paths.cpu \in CpuOutcomes
          /\ lastCreate[1].paths.planesBeforeCpu = 0
          /\ lastCreate[1].paths.cpu = "uploaded" =>
                lastCreate[1].result /\ m_planes = 1 /\ ~m_useDmaBuf

\* A multi-plane import that failed after its first plane, followed by a CPU
\* upload that worked.
C22_Witness ==
    /\ lastCreate # <<>>
    /\ lastCreate[1].paths.dmaBuf = "multi_plane"
    /\ ~lastCreate[1].paths.dmaBufOk
    /\ lastCreate[1].paths.cpu = "uploaded"
    /\ lastCreate[1].result
    /\ m_planes = 1

\* C23: failure is sticky and gating: once the backend is marked failed it
\* stays failed, and every later operation, begin_frame, present or
\* make_current, returns early with a failure and touches no Vulkan object.
C23_FailedBackendShortCircuits ==
    /\ m_failed => pc \in {"failed", "destroyed"} /\ ~m_swapchain
    /\ m_failed /\ lastOp # <<>> =>
          lastOp[1].outcome \in {"no_context", "no_swapchain", "not_current"}

DeviceChildDestroys == {"vkDestroySemaphore", "vkDestroyFence", "vkDestroyFramebuffer",
                        "vkDestroyRenderPass", "vkDestroyImageView", "vkDestroySwapchainKHR",
                        "destroy_streaming_buffer", "vkDestroyPipeline", "vkDestroyDescriptorPool",
                        "vkDestroyCommandPool"}

FastPathFramePresented ==
    /\ pc = "idle"
    /\ Len(chain) >= 3
    /\ chain[1] = "acquire"
    /\ chain[2] \in {"submit", "submit_unsignaled"}
    /\ chain[Len(chain)] \in {"present", "present_unsignaled"}

\* C25: on the swapchain fast path no CPU-blocking wait (fence wait,
\* vkQueueWaitIdle, vkDeviceWaitIdle) happens between the acquire and the
\* present of a frame; the single-time-command path is never reached from
\* frame rendering.
C25_NoCpuWaitBetweenAcquireAndPresent == FastPathFramePresented => cpuWaits = {}

\* C26: with exportable fences supported, every release point collected
\* while rendering a frame has received a sync file descriptor by the time
\* endFrame returns having let go of it (m_releasePoints cleared).
C26_ReleasePointsFenced ==
    (/\ SupportsExternalFenceFd
     /\ lastEndFrame # <<>>
     /\ lastEndFrame[1].collected
     /\ lastEndFrame[1].cleared) => lastEndFrame[1].fenced

\* C27: after create and after every recreate, whether it succeeded or
\* stopped part-way, the swapchain's image list and its framebuffer list have
\* the same length.
C27_ImagesAndFramebuffersSameLength == m_images = m_framebuffers

\* pixel size of a pixmap of the depth on an X server
PixmapBpp(depth) == IF depth = 16 THEN 16 ELSE 32

\* C28: for each pixmap depth in {16, 24, 30, 32} the DRM format the DMA-BUF
\* import path derives from the depth is non-zero, and the format the import
\* is made with is a defined Vulkan format.
C28_DepthMapsToDefinedFormat ==
    (/\ lastImport # <<>>
     /\ lastImport[1].depth \in {16, 24, 30, 32}
     /\ lastImport[1].bpp = PixmapBpp(lastImport[1].depth))
        => /\ lastImport[1].drmFormat # 0
           /\ (lastImport[1].vkCreateImage => VkFormatDefined(lastImport[1].format))

\* C29: every vkWaitForFences on in_flight[current frame] at the start of
\* doBeginFrame eventually returns: after each reset of the fence a submission
\* that signals it is made before the slot is waited on again.
C29_FenceWaitReturns == (pc = "bf_wait") ~> (pc # "bf_wait")

\* C30: whenever present is issued for a frame, render_finished of the frame
\* holds exactly one pending signal, that of the frame's render submit: no
\* other wait (the release-point follow-up submit) has taken it, and present
\* is not issued for a frame whose render submit did not happen.
C30_PresentWaitsOnRenderSignal ==
    [][(pc = "ended" /\ pc' = "idle" /\ m_swapchain) =>
          /\ m_renderFinishedSemaphores[m_currentFrame] = 1
          /\ \E i \in 1 .. Len(chain) : chain[i] \in {"submit", "submit_unsignaled"}
          /\ \A i \in 1 .. Len(chain) : chain[i] # "sync_wait"]_vars

\* C31: whenever m_needsRecreation becomes true, recreate is eventually
\* invoked (while the compositor still has frames to paint): the backend
\* never stays in a state where every later doBeginFrame fails.
C31_RecreateEventuallyInvoked ==
    (m_needsRecreation /\ presentedFrames < MaxFrames)
        ~> (recreateInvoked \/ presentedFrames = MaxFrames)

\* C32: within one frame the vertex ranges of the recorded draws are disjoint
\* in the streaming buffer: the vertices uploaded by one renderItem call are
\* not overwritten by a later renderItem call of the same frame.
C32_FrameVerticesNotOverwritten == pc = "recording" => ~recorded.vertsWritten

\* C33: the pending-outputs counter is incremented once by each beginFrame and
\* decremented once by the matching endFrame on every path, so it is zero
\* whenever no frame is between beginFrame and endFrame.
C33_OutputsInFlightBalanced == pc # "recording" => m_outputsInFlight = 0

\* C34: when the renderer's beginFrame failed (no current context, no command
\* buffer, or vkBeginCommandBuffer failed), renderItem and endFrame of that
\* frame record no draw and submit nothing.
C34_FailedBeginRecordsNothing ==
    [][(pc = "recording" /\ ~cmdRecording) =>
          /\ "drawn" \notin Outcomes(lastDraws')
          /\ Len(queue') <= Len(queue)]_vars

\* C35: after endFrame has returned by any path, the renderer's per-frame
\* state is cleared: no current command buffer, no framebuffer, empty sync
\* info and no collected release points.
C35_FrameStateClearedAfterEndFrame ==
    pc = "ended" =>
        /\ ~m_currentCommandBuffer
        /\ ~m_currentFramebuffer
        /\ m_currentSyncInfo = NoSlot
        /\ ~m_releasePoints

\* The last recreate() returned false: the swapchain was built once (init has
\* succeeded) and now lacks its handle or some of its framebuffers.
RecreateFailed ==
    /\ pc \notin {"init", "failed", "destroyed"}
    /\ (~m_swapchain \/ framebuffersBuilt < NumImages)

\* C36: after a recreate() that returned false, every doBeginFrame fails
\* before it resets the in-flight fence or acquires an image, until a later
\* recreate succeeds.
C36_NoFrameAfterFailedRecreate ==
    [][RecreateFailed =>
          /\ pc' \notin {"begun", "recording", "ended"}
          /\ ~(pc = "bf_wait" /\ pc' # "bf_wait")]_vars

\* The positions within children, in list order, that satisfy keep.
Positions(children, keep(_)) ==
    SelectSeq([i \in 1 .. Len(children) |-> i], LAMBDA i : keep(children[i]))

\* What the root item of the walk did, in order: i for a call of
\* createRenderNode on its i-th child, 0 for its own node.
RootVisits ==
    LET own == SelectSeq(renderContext[1].visited,
                         LAMBDA e : e[1] = BaseContext.transformStack + 1)
    IN  [k \in 1 .. Len(own) |-> own[k][2]]

IsBehind(child) == child.behind
IsFront(child) == ~child.behind
IsVisibleBehind(child) == child.behind /\ child.visible
IsVisibleFront(child) == ~child.behind /\ child.visible

\* C37 as stated: the walk of an item takes every child with z < 0, then
\* the item's own node, then every child with z >= 0, each child once.
C37_EveryChildVisitedInOrder ==
    renderContext # NoContext =>
        RootVisits = Positions(sceneItem.children, IsBehind) \o <<0>>
                     \o Positions(sceneItem.children, IsFront)

\* C37: the walk of an item takes its explicitly visible children with
\* z < 0 in list order, then the item's own node, then its explicitly visible
\* children with z >= 0 in list order, each of them once; a child that is not
\* explicitly visible is not visited.
C37_VisibleChildrenVisitedInOrder ==
    renderContext # NoContext =>
        RootVisits = Positions(sceneItem.children, IsVisibleBehind) \o <<0>>
                     \o Positions(sceneItem.children, IsVisibleFront)

\* An item with a visible child behind it, a visible child in front of it and
\* a child that is not explicitly visible has been walked.
C37_Witness ==
    /\ renderContext # NoContext
    /\ Len(sceneItem.children) = MaxChildren
    /\ \E i \in 1 .. MaxChildren : IsVisibleBehind(sceneItem.children[i])
    /\ \E i \in 1 .. MaxChildren : IsVisibleFront(sceneItem.children[i])
    /\ \E i \in 1 .. MaxChildren : ~sceneItem.children[i].visible
    /\ Len(renderContext[1].renderNodes) = MaxChildren

\* C38: copyPixels leaves the colour texture of the framebuffer in the
\* layout it had before the call, both in the layout the last recorded
\* barrier gives its image and in the layout the texture tracks (a texture
\* that has a layout: nothing can be put back into UNDEFINED).
C38_CopyPixelsRestoresLayout ==
    (layoutBeforeCopy # <<>> /\ layoutBeforeCopy[1].tracked # "UNDEFINED") =>
        LET before == layoutBeforeCopy[1]
        IN  /\ m_currentLayout[before.texture] = before.tracked
            /\ recordedLayout[before.texture] = before.recorded

\* C39: no uniform slot that a draw of the command buffer being recorded or
\* of a submitted command buffer reads is written again before that command
\* buffer has completed.
C39_UniformSlotsNotShared ==
    /\ (pc = "recording" => ~recorded.uniformsWritten)
    /\ \A q \in InFlight : ~q.rec.uniformsWritten

\* C40: between frames the command buffers allocated from the command pool
\* and not freed are never more than the frames that can still be pending,
\* MAX_FRAMES_IN_FLIGHT, however many frames have been drawn.
C40_CommandBuffersBounded ==
    pc = "idle" => commandBuffersAllocated <= MAX_FRAMES_IN_FLIGHT

====
